---- MODULE Spec2Model ----
(***************************************************************************)
(* AstroInsight: the AI-insight request pipeline (integrations/claude.js)  *)
(* and the chart calculation pipeline (integrations/ephemeris.js,          *)
(* jobs/monthlyHoroscope.js, actions/astrology.js).                        *)
(*                                                                         *)
(* Units.  Token counts are held in quarter tokens, because the code       *)
(* estimates a missing count as (text length / 4): a count reported by the *)
(* provider as n is 4*n here, an estimate from a text of length L is L,    *)
(* and a count is a whole number of tokens iff it is divisible by 4.       *)
(* Prices are held in cents per million tokens (0.25 $ = 25), so a cost is *)
(* in units of 1/(4*10^8) dollar and the cost arithmetic is exact.         *)
(***************************************************************************)
EXTENDS Integers, Sequences, FiniteSets, TLC

(* ------------------------------ bounds -------------------------------- *)
MaxTok == 1          \* provider-reported token counts range over 0..MaxTok
MaxLen == 5          \* text lengths (characters) range over 0..MaxLen

(* --------------------------- JS value stand-ins ------------------------ *)
NaN    == -1         \* the JS number NaN (no token count is negative)
Null   == -2         \* undefined / null
NoText == -3         \* response.content is [] : content[0]?.text is undefined

(* ------------------------- claude.js constants ------------------------- *)
PREMIUM_MODEL == "claude-3-5-sonnet-20240620"
BASIC_MODEL   == "claude-3-haiku-20240307"
MAX_TOKENS    == 4000
maxAttempts   == 2

Models   == {PREMIUM_MODEL, BASIC_MODEL}
ErrMsgs  == {"overloaded", "timeout"}
Lens     == 0..MaxLen

\* what anthropic.messages.create can answer: a provider error, or a
\* response whose usage block may be absent (<<>>) and whose content may be
\* empty (NoText)
Responses == [usage : ({<<>>} \cup {<<[input_tokens |-> i,
        output_tokens |-> o]>> : i \in (0..MaxTok), o \in (0..MaxTok)}),
        textLen : Lens \cup {NoText}]

\* MODEL_PRICING, in cents per million tokens
MODEL_PRICING ==
  (PREMIUM_MODEL :> [input |-> 300, output |-> 1500]) @@
  (BASIC_MODEL   :> [input |-> 25,  output |-> 125])

calculateCost(model, inputTokens, outputTokens) ==
  IF model \notin DOMAIN MODEL_PRICING THEN 0
  ELSE IF inputTokens = NaN \/ outputTokens = NaN THEN NaN
  ELSE inputTokens * MODEL_PRICING[model].input + outputTokens * MODEL_PRICING[model].output

\* the ApiLog columns tokenCountIn / tokenCountOut are Int? : the client
\* rejects a value that is not a whole number (a fractional estimate, NaN)
IsIntOrNull(q) == q = Null \/ (q >= 0 /\ q % 4 = 0)

\* a variant that stores whatever it is given
logClaudeApiCall_Unchecked(written, rec, dbOk) ==
  IF dbOk THEN Append(written, rec) ELSE written

\* prisma.apiLog.create inside try/catch: a rejected or failed write is
\* swallowed, and the call goes on without a record
logClaudeApiCall(written, rec, dbOk) ==
  IF dbOk /\ IsIntOrNull(rec.tokenCountIn) /\ IsIntOrNull(rec.tokenCountOut)
  THEN Append(written, rec)
  ELSE written

InitialModel(userPlan) == IF userPlan = "premium" THEN PREMIUM_MODEL ELSE BASIC_MODEL

\* the frame of one getClaudeInsight call
\*   owner    : the request the call was made for ("none": a direct call)
\*   requests : one entry per provider request made (history)
\*   waits    : the backoff (ms) slept after each failed, non-final attempt
\*   written  : the ApiLog 'Claude' records this call has written
\*   result   : <<>> or <<the returned object>>
\*   thrown   : <<>> or <<the raised error>>
IdleFrame ==
  [pc |-> "idle", owner |-> "none", userPlan |-> "basic", inputLen |-> 0,
   modelToUse |-> BASIC_MODEL, attempt |-> 1,
   requestPayload |-> [model |-> BASIC_MODEL, max_tokens |-> MAX_TOKENS],
   requests |-> <<>>, waits |-> <<>>, written |-> <<>>,
   result |-> <<>>, thrown |-> <<>>]

StartFrame(hasClient, userPlan, inputLen) ==
  IF ~hasClient
  THEN [IdleFrame EXCEPT !.pc = "raised", !.userPlan = userPlan, !.inputLen = inputLen,
          !.thrown = <<[kind |-> "unavailable", cause |-> "none"]>>]
  ELSE [IdleFrame EXCEPT !.pc = "running", !.userPlan = userPlan, !.inputLen = inputLen,
          !.modelToUse = InitialModel(userPlan),
          !.requestPayload = [model |-> InitialModel(userPlan), max_tokens |-> MAX_TOKENS]]

\* (a || b) on numbers: 0 and undefined are falsy
Reported(usage, field) == IF usage = <<>> THEN 0 ELSE usage[1][field]
PromptTokens(c, resp) ==
  IF Reported(resp.usage, "input_tokens") # 0
  THEN 4 * Reported(resp.usage, "input_tokens")
  ELSE c.inputLen
CompletionTokens(resp) ==
  IF Reported(resp.usage, "output_tokens") # 0
  THEN 4 * Reported(resp.usage, "output_tokens")
  ELSE IF resp.textLen = NoText THEN NaN ELSE resp.textLen

\* a variant that prices by the requested tier's default model
CostModel_TierDefault(c) == InitialModel(c.userPlan)

\* the model whose price-table entry prices the attempt (line 105)
CostModel(c) == c.modelToUse

\* try-branch of the loop body: the request succeeded
OnResponse(c, resp, dbOk) ==
  LET promptTokens     == PromptTokens(c, resp)
      completionTokens == CompletionTokens(resp)
      cost             == calculateCost(CostModel(c), promptTokens, completionTokens)
      rec == [apiService |-> "Claude", endpoint |-> c.modelToUse,
              tokenCountIn |-> promptTokens, tokenCountOut |-> completionTokens,
              cost |-> cost, isSuccess |-> TRUE, errorMessage |-> "none",
              attempt |-> c.attempt]
  IN [c EXCEPT
        !.pc = "returned",
        !.requests = Append(@, [attempt |-> c.attempt, model |-> c.requestPayload.model,
                                modelToUse |-> c.modelToUse, ok |-> TRUE,
                                error |-> "none", promptTokens |-> promptTokens,
                                completionTokens |-> completionTokens]),
        !.written = logClaudeApiCall(@, rec, dbOk),
        !.result = <<[contentLen |-> IF resp.textLen = NoText THEN 0 ELSE resp.textLen,
                      modelUsed |-> c.modelToUse, usage |-> resp.usage, cost |-> cost]>>]

\* a variant that retries without downgrading
FallbackModel_Same(c) == c.modelToUse

\* the model the retry switches to after the premium model failed (line 144)
FallbackModel(c) == BASIC_MODEL

\* a variant whose exhaustion test is off by one
IsLastAttempt_OffByOne(c) == c.attempt > maxAttempts

\* if (attempt === maxAttempts) throw (line 137)
IsLastAttempt(c) == c.attempt = maxAttempts

\* catch-branch of the loop body: the request raised a provider error
OnError(c, msg, dbOk) ==
  LET rec == [apiService |-> "Claude", endpoint |-> c.modelToUse,
              tokenCountIn |-> Null, tokenCountOut |-> Null,
              cost |-> Null, isSuccess |-> FALSE, errorMessage |-> msg,
              attempt |-> c.attempt]
      logged == [c EXCEPT
        !.requests = Append(@, [attempt |-> c.attempt, model |-> c.requestPayload.model,
                                modelToUse |-> c.modelToUse, ok |-> FALSE,
                                error |-> msg, promptTokens |-> Null, completionTokens |-> Null]),
        !.written = logClaudeApiCall(@, rec, dbOk)]
  IN IF IsLastAttempt(c)
     THEN [logged EXCEPT !.pc = "raised",
             !.thrown = <<[kind |-> "failedAfterAttempts", cause |-> msg]>>]
     ELSE IF c.modelToUse = PREMIUM_MODEL /\ BASIC_MODEL # PREMIUM_MODEL
     THEN [logged EXCEPT !.modelToUse = FallbackModel(c),
             !.requestPayload = [@ EXCEPT !.model = FallbackModel(c)],
             !.waits = Append(@, 0),
             !.attempt = @ + 1]
     ELSE [logged EXCEPT !.waits = Append(@, 1000 * c.attempt),
             !.attempt = @ + 1]

\* a variant whose loop goes on after the return / throw
LoopContinues_AfterEnd(c) == c.attempt <= maxAttempts

\* while (attempt <= maxAttempts), left by return (line 118) and throw (line 138)
LoopContinues(c) == c.pc = "running" /\ c.attempt <= maxAttempts

(* ===================== ephemeris.js: the chart pipeline ================= *)
\* PLANET_LIST / PLANET_NAMES, in iteration order; the oracle id of the
\* i-th entry is i - 1 (SE_SUN = 0 .. SE_MEAN_NODE = 10)
PLANET_NAMES ==
  <<"Sun", "Moon", "Mercury", "Venus", "Mars", "Jupiter", "Saturn",
    "Uranus", "Neptune", "Pluto", "Rahu">>
NumPlanets == Len(PLANET_NAMES)

\* AYANAMSA_MODES: the oracle's sidereal mode numbers
AYANAMSA_MODES == [LAHIRI |-> 1, RAMAN |-> 3, KRISHNAMURTI |-> 5]

\* the oracle's default sidereal mode, the one swe_set_sid_mode(0, 0, 0) sets
SID_DEFAULT == 0
SidModes    == {SID_DEFAULT, 1, 3, 5}

\* HOUSE_SYSTEMS: the identifiers the module names
HOUSE_SYSTEMS == {"P", "K", "R", "C", "E", "W"}
\* the IANA zone ids the runtime knows, and the timezone arguments in use
\* ("Mars/Olympus_Mons" is no zone id)
KnownZones    == {"UTC", "America/New_York"}
Zones         == KnownZones \cup {"Mars/Olympus_Mons"}

\* String.prototype.toUpperCase on the names in use
ToUpperCase(name) ==
  IF name = "Lahiri" THEN "LAHIRI" ELSE IF name = "w" THEN "W" ELSE name

\* AYANAMSA_MODES[ayanamsaName.toUpperCase()], 0 standing for undefined
AyanamsaModeOf(ayanamsaName) ==
  IF ToUpperCase(ayanamsaName) \in DOMAIN AYANAMSA_MODES
  THEN AYANAMSA_MODES[ToUpperCase(ayanamsaName)]
  ELSE 0

Mod360(x) == ((x % 360) + 360) % 360

IsCalendarDate(date) ==
  /\ date[2] \in 1..12
  /\ date[3] \in 1..31

\* the zone's UTC offset in minutes on the date (daylight saving by month)
TzOffsetMinutes(timezone, date) ==
  IF timezone = "America/New_York"
  THEN IF date[2] \in 4..10 THEN -240 ELSE -300
  ELSE 0

\* Gregorian calendar date -> Julian Day Number (at noon UT)
JulianDayNumber(y, m, d) ==
  LET a  == (14 - m) \div 12
      yy == y + 4800 - a
      mm == m + 12 * a - 3
  IN d + ((153 * mm + 2) \div 5) + 365 * yy + (yy \div 4) - (yy \div 100) + (yy \div 400) - 32045

\* the time-of-day check of date-fns-tz (validateTime): 00:00 .. 23:59, and 24:00
IsTimeOfDay(time) ==
  \/ time[1] \in 0..23 /\ time[2] \in 0..59
  \/ time[1] = 24 /\ time[2] = 0

\* zonedTimeToUtc(`${date}T${time}:00`, timezone): the UTC instant, counted
\* in quarter hours of Julian Day, or an Invalid Date (valid = FALSE) for a
\* time that is no time of day or a zone id the runtime does not know
zonedTimeToUtc(date, time, timezone) ==
  IF ~IsTimeOfDay(time) \/ timezone \notin KnownZones
  THEN [valid |-> FALSE, quarterHours |-> 0]
  ELSE [valid |-> TRUE,
        quarterHours |-> JulianDayNumber(date[1], date[2], date[3]) * 96 - 48
                         + ((time[1] * 60 + time[2] - TzOffsetMinutes(timezone, date)) \div 15)]

\* sweph.swe_utc_to_jd(year, month, day, hours, minutes, seconds, SE_GREG_CAL)
\* on the UTC fields of utcDate: the oracle reports ret < 0 for fields that
\* are no calendar date (the NaN fields of an Invalid Date)
swe_utc_to_jd(utcDate) ==
  IF utcDate.valid THEN [ret |-> 0, jdut |-> utcDate.quarterHours]
                   ELSE [ret |-> -1, jdut |-> 0]

\* a variant that does not look at the outcome of the conversion
JdFailed_Ignored(ret) == FALSE

\* if (ret < 0) throw (line 100)
JdFailed(ret) == ret < 0

\* getJulianDayUT: local civil time in the zone -> UTC -> Julian Day (UT),
\* here counted in quarter hours; format() throws on an invalid date
getJulianDayUT(birthDate, birthTime, timezone) ==
  IF ~IsCalendarDate(birthDate)
  THEN [ok |-> FALSE, error |-> "Invalid time value", jdut |-> 0]
  ELSE LET utcDate == zonedTimeToUtc(birthDate, birthTime, timezone)
           r       == swe_utc_to_jd(utcDate)
       IN IF JdFailed(r.ret)
          THEN [ok |-> FALSE, error |-> "Failed to calculate Julian Day from UTC.", jdut |-> 0]
          ELSE [ok |-> TRUE, error |-> "none", jdut |-> r.jdut]

(* ---- the oracle (sweph): a fixed function of its inputs and its mode ---- *)
\* swe_get_ayanamsa_ut under the oracle's current sidereal mode
Ayanamsa(sidMode, jdut) == 20 + sidMode + (jdut % 3)

SidOffset(flags, sidMode, jdut) ==
  IF "SIDEREAL" \in flags THEN Ayanamsa(sidMode, jdut) ELSE 0

\* swe_calc_ut(jdut, id, flags).xx : longitude, latitude, distance, speeds
swe_calc_ut(jdut, id, flags, sidMode) ==
  [lon       |-> Mod360((jdut % 360) * 7 + id * 31 - SidOffset(flags, sidMode, jdut)),
   lat       |-> ((jdut + id) % 5) - 2,
   dist      |-> 1 + id,
   speedLon  |-> ((jdut + 2 * id) % 5) - 2,
   speedLat  |-> (id % 3) - 1,
   speedDist |-> 0]

\* swe_houses_ex(jdut, flags, lat, lon, hsys): cusps[0..12] (index 0 unused,
\* held here at position 1) and ascmc
swe_houses_ex(jdut, flags, latitude, longitude, hsys, sidMode) ==
  LET asc  == Mod360((jdut % 360) * 5 + latitude + longitude
                     - SidOffset(flags, sidMode, jdut))
      mc   == Mod360(asc + 270 - (latitude \div 4))
      base == IF hsys = "W" THEN (asc \div 30) * 30 ELSE asc
      quad == <<asc, Mod360(asc + (Mod360(mc + 180 - asc) \div 3)),
                Mod360(asc + 2 * (Mod360(mc + 180 - asc) \div 3)),
                Mod360(mc + 180),
                Mod360(mc + 180 + (Mod360(asc - mc) \div 3)),
                Mod360(mc + 180 + 2 * (Mod360(asc - mc) \div 3)),
                Mod360(asc + 180),
                Mod360(asc + 180 + (Mod360(mc + 180 - asc) \div 3)),
                Mod360(asc + 180 + 2 * (Mod360(mc + 180 - asc) \div 3)),
                mc,
                Mod360(mc + (Mod360(asc - mc) \div 3)),
                Mod360(mc + 2 * (Mod360(asc - mc) \div 3))>>
  IN [cusps |-> <<0>> \o [i \in 1..12 |->
                    IF hsys \in {"W", "E"} THEN Mod360(base + 30 * (i - 1)) ELSE quad[i]],
      ascmc |-> <<asc, mc, Mod360(mc + 3), Mod360(asc + 100)>>]

\* a variant that asks for sidereal positions whatever the ayanamsa
CalcFlags_AlwaysSidereal(ayanamsaMode) == {"SPEED", "SIDEREAL"}

\* flags = SEFLG_SPEED, plus SEFLG_SIDEREAL when an ayanamsa mode is given
CalcFlags(ayanamsaMode) ==
  IF ayanamsaMode # 0 THEN {"SPEED", "SIDEREAL"} ELSE {"SPEED"}

\* the oracle mode in force during the queries of a call: set to the
\* call's ayanamsa mode when there is one, else whatever was left behind
ModeInCall(sidMode, ayanamsaMode) ==
  IF ayanamsaMode # 0 THEN ayanamsaMode ELSE sidMode

\* a variant that also flags a stationary body as retrograde
PlanetEntry_RetroWhenStill(xx) ==
  [longitude |-> xx.lon, latitude |-> xx.lat, distance |-> xx.dist,
   speedLon |-> xx.speedLon, speedLat |-> xx.speedLat, speedDist |-> xx.speedDist,
   isRetrograde |-> xx.speedLon <= 0]

\* planets[PLANET_NAMES[id]] = {...}
PlanetEntry(xx) ==
  [longitude |-> xx.lon, latitude |-> xx.lat, distance |-> xx.dist,
   speedLon |-> xx.speedLon, speedLat |-> xx.speedLat, speedDist |-> xx.speedDist,
   isRetrograde |-> xx.speedLon < 0]

\* a variant of the Ketu derivation that forgets the half turn
KetuEntry_SameLongitude(rahu) ==
  [longitude |-> rahu.longitude, latitude |-> -rahu.latitude,
   distance |-> rahu.distance, speedLon |-> rahu.speedLon,
   isRetrograde |-> rahu.isRetrograde]

\* planets.Ketu, derived from planets.Rahu (speedLat / speedDist are not set)
KetuEntry(rahu) ==
  [longitude |-> (rahu.longitude + 180) % 360, latitude |-> -rahu.latitude,
   distance |-> rahu.distance, speedLon |-> rahu.speedLon,
   isRetrograde |-> rahu.isRetrograde]

BodyNames == {PLANET_NAMES[i] : i \in 1..NumPlanets} \cup {"Ketu"}

\* the inputs of one oracle-backed call: no query fails (0), the query of
\* body k fails (k the first or the last body of PLANET_LIST), the house
\* calculation fails
FailHouses == NumPlanets + 1
FailPoints == {0, 1, NumPlanets, FailHouses}

\* <<25, 61>> has the HH:MM shape but is no time of day
\* birth dates as <<year, month, day>>, birth times as <<hour, minute>>;
\* <<1990, 13, 45>> has the YYYY-MM-DD shape but is no calendar date
\* the houseSystemChar arguments in use ("X" is none of HOUSE_SYSTEMS)
CalcArgs ==
  [birthDate : ({<<1990, 7, 21>>, <<1990, 13, 45>>}), birthTime : ({<<6, 0>>, <<25, 61>>}), latitude : ({41}),
   longitude : ({-74}), timezone : Zones, houseSystemChar : ({"P", "W", "X"}),
   ayanamsaName : ({"LAHIRI", "Lahiri", "RAMAN", "TROPICAL"})]

\* if (ret < 0 || serr) throw, in the planet loop (line 154)
PlanetFailed(failAt, i) == failAt = i

\* a variant that does not look at the outcome of the house calculation
HousesFailed_Ignored(failAt) == FALSE

\* if (housesRet < 0 || housesSerr) throw (line 190)
HousesFailed(failAt) == failAt = FailHouses

\* the ids handed to swe_calc_ut by the first n iterations of the loop over
\* PLANET_LIST, one query per iteration
QueriedIds(n) == [i \in 1..n |-> i - 1]

\* what the oracle hands back with an error: a zeroed xx, no cusps
\* calculateBirthChartData, run on an oracle whose sidereal mode is sidMode
\* and whose files are open iff ephOpen; failAt is the query that fails.
\* Yields the outcome and the oracle state the call leaves behind.
calculateBirthChartData(a, sidMode, ephOpen, failAt) ==
  LET jd           == getJulianDayUT(a.birthDate, a.birthTime, a.timezone)
      jdut         == jd.jdut
      ayanamsaMode == AyanamsaModeOf(a.ayanamsaName)
      flags        == CalcFlags(ayanamsaMode)
      mode         == ModeInCall(sidMode, ayanamsaMode)
      ayanamsaValue == IF ayanamsaMode # 0 THEN Ayanamsa(mode, jdut) ELSE 0
      planets == [n \in BodyNames |->
                    LET i == IF n = "Ketu" THEN NumPlanets
                             ELSE CHOOSE j \in 1..NumPlanets : PLANET_NAMES[j] = n
                        xx == IF failAt = i THEN ([lon |-> 0, lat |-> 0, dist |-> 0, speedLon |-> 0, speedLat |-> 0, speedDist |-> 0])
                              ELSE swe_calc_ut(jdut, i - 1, flags, mode)
                    IN IF n = "Ketu" THEN KetuEntry(PlanetEntry(xx)) ELSE PlanetEntry(xx)]
      h == IF failAt = FailHouses THEN ([cusps |-> <<0>>, ascmc |-> <<Null, Null, Null, Null>>])
           ELSE swe_houses_ex(jdut, flags, a.latitude, a.longitude, a.houseSystemChar, mode)
  IN IF ~jd.ok
     THEN [ok |-> FALSE, error |-> jd.error, chart |-> <<>>,
           queries |-> <<>>, housesAsked |-> FALSE,
           sidMode |-> sidMode, ephOpen |-> ephOpen]
     ELSE IF \E i \in 1..NumPlanets : PlanetFailed(failAt, i)
     THEN [ok |-> FALSE, error |-> "Failed to calculate position", chart |-> <<>>,
           queries |-> QueriedIds(CHOOSE i \in 1..NumPlanets : PlanetFailed(failAt, i)),
           housesAsked |-> FALSE,
           sidMode |-> mode, ephOpen |-> TRUE]
     ELSE IF HousesFailed(failAt)
     THEN [ok |-> FALSE, error |-> "Failed to calculate house cusps.", chart |-> <<>>,
           queries |-> QueriedIds(NumPlanets), housesAsked |-> TRUE,
           sidMode |-> mode, ephOpen |-> TRUE]
     ELSE [ok |-> TRUE, error |-> "none",
           queries |-> QueriedIds(NumPlanets), housesAsked |-> TRUE,
           chart |-> <<[jdut |-> jdut, birthDate |-> a.birthDate, birthTime |-> a.birthTime,
                        location |-> [latitude |-> a.latitude, longitude |-> a.longitude,
                                      timezone |-> a.timezone],
                        ayanamsa |-> IF ayanamsaMode # 0
                                     THEN <<[name |-> a.ayanamsaName, value |-> ayanamsaValue]>>
                                     ELSE <<>>,
                        houseSystem |-> a.houseSystemChar,
                        planets |-> planets,
                        houses |-> [cusps |-> SubSeq(h.cusps, 2, Len(h.cusps)),
                                    ascendant |-> h.ascmc[1],
                                    mc |-> h.ascmc[2], armc |-> h.ascmc[3],
                                    vertex |-> h.ascmc[4]]]>>,
           sidMode |-> IF ayanamsaMode # 0 THEN SID_DEFAULT ELSE mode,
           ephOpen |-> FALSE]

(* ------------------- monthlyHoroscope.js: transits --------------------- *)
\* the keys of PLANET_LIST, by oracle id + 1
PLANET_KEYS ==
  <<"SE_SUN", "SE_MOON", "SE_MERCURY", "SE_VENUS", "SE_MARS", "SE_JUPITER",
    "SE_SATURN", "SE_URANUS", "SE_NEPTUNE", "SE_PLUTO", "SE_MEAN_NODE">>

TransitMonths == {<<2024, 1>>, <<2024, 7>>}

\* getTransitDataForMonth for the 15th of the month, noon UT (server zone
\* UTC); the oracle's ret / serr are not looked at
getTransitDataForMonth(month, sidMode, ephOpen, failAt, xxOnError) ==
  LET jdutTransit == JulianDayNumber(month[1], month[2], 15) * 96
      flags       == {"SPEED"}
      mode        == SID_DEFAULT
      planets == [k \in {PLANET_KEYS[i] : i \in 1..NumPlanets} |->
                    LET i  == CHOOSE j \in 1..NumPlanets : PLANET_KEYS[j] = k
                        xx == swe_calc_ut(jdutTransit, i - 1, flags, mode)
                    IN IF i = failAt
                       THEN [longitude |-> 0, speedLon |-> 0]
                       ELSE [longitude |-> xx.lon, speedLon |-> xx.speedLon]]
  IN IF failAt \in 1..NumPlanets /\ xxOnError = "undefined"
     THEN [ok |-> FALSE, error |-> "TypeError", chart |-> <<>>,
           queries |-> QueriedIds(failAt), housesAsked |-> FALSE,
           sidMode |-> mode, ephOpen |-> TRUE]
     ELSE [ok |-> TRUE, error |-> "none",
           chart |-> <<[date |-> <<month[1], month[2], 15>>, planets |-> planets]>>,
           queries |-> QueriedIds(NumPlanets), housesAsked |-> FALSE,
           sidMode |-> mode, ephOpen |-> FALSE]

(* ================= utils/astroLogic.js: house placement ================ *)
\* Longitudes handed to getHousePlacement are held in whole degrees: the
\* function only normalises and compares them.
Undef == -99999999   \* undefined or NaN where a number is expected (below every longitude in use)
NoString == "undefined"  \* undefined where a string is expected

\* the JS remainder a % b for b > 0: it takes the sign of the dividend
JsRem(a, b) == IF a >= 0 THEN a % b ELSE -((-a) % b)

\* (x % 360 + 360) % 360
Normalize(x) == JsRem(JsRem(x, 360) + 360, 360)

\* Math.floor(normalised longitude / 30)
SignIndex(lon) == Normalize(lon) \div 30

\* a variant of the whole-sign branch that leaves out the + 12
WholeSignHouse_NoPlus12(planetLon, ascendantLongitude) ==
  JsRem(SignIndex(planetLon) - SignIndex(ascendantLongitude), 12) + 1

\* the whole-sign branch (lines 162-167)
WholeSignHouse(planetLon, ascendantLongitude) ==
  JsRem(SignIndex(planetLon) - SignIndex(ascendantLongitude) + 12, 12) + 1

\* a variant of the interval test without the wrap-around branch
InHouse_NoWrap(planetLon, cusp1, cusp2) ==
  planetLon >= cusp1 /\ planetLon < cusp2

\* the interval test of one loop iteration (lines 177-185)
InHouse(planetLon, cusp1, cusp2) ==
  IF cusp1 <= cusp2
  THEN planetLon >= cusp1 /\ planetLon < cusp2
  ELSE (planetLon >= cusp1 /\ planetLon < 360) \/ (planetLon >= 0 /\ planetLon < cusp2)

\* the for loop from iteration i on (i is the loop index + 1): the first
\* house whose interval holds planetLon, Null when the loop runs out
RECURSIVE QuadrantHouse(_, _, _)
QuadrantHouse(planetLon, houseCusps, i) ==
  IF i > 12 THEN Null
  ELSE IF InHouse(planetLon, Normalize(houseCusps[i]), Normalize(houseCusps[(i % 12) + 1]))
       THEN i
       ELSE QuadrantHouse(planetLon, houseCusps, i + 1)

\* getHousePlacement(planetLongitude, houseCusps, ascendantLongitude,
\* houseSystem); houseCusps <<>> stands for a missing array as well as for
\* an empty one.  Yields the returned value, or threw = TRUE for the
\* TypeError of houseSystem.toUpperCase() on an undefined houseSystem.
getHousePlacement(planetLongitude, houseCusps, ascendantLongitude, houseSystem) ==
  IF Len(houseCusps) # 12
  THEN [threw |-> FALSE, value |-> Null]
  ELSE IF houseSystem = NoString
  THEN [threw |-> TRUE, value |-> Null]
  ELSE IF ToUpperCase(houseSystem) = "W"
  THEN [threw |-> FALSE,
        value |-> IF planetLongitude = Undef \/ ascendantLongitude = Undef
                  THEN NaN
                  ELSE WholeSignHouse(Normalize(planetLongitude), ascendantLongitude)]
  ELSE [threw |-> FALSE,
        value |-> IF planetLongitude = Undef
                  THEN Null
                  ELSE QuadrantHouse(Normalize(planetLongitude), houseCusps, 1)]

\* cusp arrays handed to getHousePlacement
EqualCusps(start, step) == [i \in 1..12 |-> start + step * (i - 1)]
CuspArrays ==
  LET PlacidusCusps(jdut) ==
      SubSeq(swe_houses_ex(jdut, {"SPEED"}, 41, -74, "P", SID_DEFAULT).cusps, 2, 13)
  IN
  { EqualCusps(0, 30),        \* cusp 1 at 0 Aries, house 12 ends at the wrap
    EqualCusps(345, 30),      \* runs past 360: normalised by the function
    EqualCusps(-350, 30),     \* negative values
    PlacidusCusps(20),        \* unequal quadrants
    PlacidusCusps(67),
    EqualCusps(100, 0),       \* all twelve cusps equal
    EqualCusps(0, 60),        \* goes round the zodiac twice
    EqualCusps(330, -30),     \* in reverse order
    [i \in 1..12 |-> IF i = 3 THEN 30 ELSE Normalize(30 * (i - 1))],  \* cusps 2 and 3 equal
    <<>>,                     \* no cusps
    <<0, 30, 60>> }           \* not 12 cusps

(* ================= utils/astroLogic.js: formatLongitude ================ *)
\* Longitudes handed to formatLongitude are held in half arc-seconds, so
\* that truncation to whole seconds can be told from rounding.
Scale == 7200        \* units per degree
MaxTurns == 1        \* whole turns added to / taken from a longitude

ZODIAC_SIGNS ==
  <<"Aries", "Taurus", "Gemini", "Cancer", "Leo", "Virgo",
    "Libra", "Scorpio", "Sagittarius", "Capricorn", "Aquarius", "Pisces">>

\* ZODIAC_SIGNS[signIndex], undefined outside the array
SignName(signIndex) ==
  IF signIndex \in 0..11 THEN ZODIAC_SIGNS[signIndex + 1] ELSE "undefined"

\* String(n).padStart(2, '0'): the two characters, as digits
PadStart2(n) == <<n \div 10, n % 10>>

\* a variant that rounds to the nearest whole number
MathFloor_Round(num, den) == (2 * num + den) \div (2 * den)

\* Math.floor(num / den)
MathFloor(num, den) == num \div den

\* a variant of the normalisation that leaves out the + 360
CorrectedDegrees_NoPlus360(totalDegrees) == JsRem(totalDegrees, 360 * Scale)

\* (totalDegrees % 360 + 360) % 360
CorrectedDegrees(totalDegrees) ==
  JsRem(JsRem(totalDegrees, 360 * Scale) + 360 * Scale, 360 * Scale)

\* formatLongitude(totalDegrees): the parts of the rendered string
\* `D° Sign MM' SS"`, or "N/A" for a value that is no number
formatLongitude(totalDegrees) ==
  IF totalDegrees = Undef
  THEN [na |-> TRUE, degrees |-> 0, sign |-> "N/A", minutes |-> <<0, 0>>, seconds |-> <<0, 0>>]
  ELSE LET correctedDegrees == CorrectedDegrees(totalDegrees)
           signIndex        == MathFloor(correctedDegrees, 30 * Scale)
           degreesInSign    == JsRem(correctedDegrees, 30 * Scale)
           degrees          == MathFloor(degreesInSign, Scale)
           \* the two next values are in 1/Scale minutes and 1/Scale seconds
           minutesDecimal   == (degreesInSign - degrees * Scale) * 60
           minutes          == MathFloor(minutesDecimal, Scale)
           seconds          == MathFloor((minutesDecimal - minutes * Scale) * 60, Scale)
       IN [na |-> FALSE, degrees |-> degrees, sign |-> SignName(signIndex),
           minutes |-> PadStart2(minutes), seconds |-> PadStart2(seconds)]

\* JSON.stringify / JSON.parse of a chart object
JSON_stringify(chart) == <<"json", chart>>
JSON_parse(text)      == text[2]

(* ================ utils/astroLogic.js: the XML formatters ============== *)
\* A JS object is a function from its property names; a property that is
\* missing (undefined) is not in its domain; <<>> is null / undefined.
Has(obj, key)      == key \in DOMAIN obj
Without(obj, keys) == [k \in DOMAIN obj \ keys |-> obj[k]]

\* Number.prototype.toFixed(digits): the number and the digits rendered
toFixed(x, digits) == <<x, digits>>

InsufficientChart   == "<error>Insufficient chart data provided</error>"
InsufficientTransit == "<error>Insufficient transit data provided</error>"

\* what a formatter call comes to: a TypeError, the error marker, or the
\* document as the sequence of its elements
Thrown         == [threw |-> TRUE,  marker |-> "none", elements |-> <<>>]
Marker(m)      == [threw |-> FALSE, marker |-> m,      elements |-> <<>>]
Document(els)  == [threw |-> FALSE, marker |-> "none", elements |-> els]

\* an optional element: present iff cond
Opt(cond, el) == IF cond THEN <<el>> ELSE <<>>

\* one <planet> element of the chart document (lines 77-86); threw for the
\* TypeError of data.longitude.toFixed or of getHousePlacement
ChartPlanet(name, data, chartData) ==
  LET houses == chartData.houses
      housePlacement ==
        getHousePlacement(data.longitude,
                          IF Has(houses, "cusps") THEN houses.cusps ELSE <<>>,
                          IF Has(houses, "ascendant") THEN houses.ascendant ELSE Undef,
                          IF Has(chartData, "houseSystem") THEN chartData.houseSystem
                                                           ELSE NoString)
  IN IF ~Has(data, "longitude")
     THEN [threw |-> TRUE, element |-> <<>>]
     ELSE IF housePlacement.threw
     THEN [threw |-> TRUE, element |-> <<>>]
     ELSE [threw |-> FALSE,
           element |->
             <<[tag |-> "planet", name |-> name,
                longitude_decimal |-> toFixed(data.longitude, 6),
                longitude_formatted |-> formatLongitude(data.longitude * Scale),
                latitude_decimal |-> Opt(Has(data, "latitude"), toFixed(data.latitude, 6)),
                speed_longitude_per_day |-> Opt(Has(data, "speedLon"), toFixed(data.speedLon, 6)),
                is_retrograde |-> Opt(Has(data, "isRetrograde"), data.isRetrograde),
                house_placement |-> Opt(housePlacement.value \in 1..12, housePlacement.value)]>>]

\* <personal_information> and <astrological_system> (lines 47-72)
ChartHeader(chartData) ==
  Opt(Has(chartData, "name"), [tag |-> "name", value |-> chartData.name])
  \o Opt(Has(chartData, "birthDate"), [tag |-> "birth_date", value |-> chartData.birthDate])
  \o Opt(Has(chartData, "birthTime"), [tag |-> "birth_time", value |-> chartData.birthTime])
  \o Opt(Has(chartData, "location"),
         [tag |-> "birth_location_details",
          latitude |-> Opt(chartData.location.latitude # 0,
                           toFixed(chartData.location.latitude, 4)),
          longitude |-> Opt(chartData.location.longitude # 0,
                            toFixed(chartData.location.longitude, 4)),
          timezone |-> chartData.location.timezone])
  \o Opt(Has(chartData, "gender"), [tag |-> "gender", value |-> chartData.gender])
  \o <<[tag |-> "house_system",
        value |-> IF Has(chartData, "houseSystem") THEN chartData.houseSystem ELSE "Placidus"]>>
  \o (IF Has(chartData, "ayanamsa") /\ chartData.ayanamsa # <<>>
      THEN <<[tag |-> "calculation_type", value |-> "Sidereal"],
             [tag |-> "ayanamsa_name", value |-> chartData.ayanamsa[1].name],
             [tag |-> "ayanamsa_value", value |-> toFixed(chartData.ayanamsa[1].value, 6)]>>
      ELSE <<[tag |-> "calculation_type", value |-> "Tropical"]>>)

\* <house_cusps> (lines 91-102), for houses holding ascendant, mc and cusps
ChartCusps(houses) ==
  <<[tag |-> "ascendant", longitude_decimal |-> toFixed(houses.ascendant, 6),
     longitude_formatted |-> formatLongitude(houses.ascendant * Scale)],
    [tag |-> "midheaven", longitude_decimal |-> toFixed(houses.mc, 6),
     longitude_formatted |-> formatLongitude(houses.mc * Scale)]>>
  \o [i \in 1..Len(houses.cusps) |->
        [tag |-> "house_cusp", number |-> i,
         longitude_decimal |-> toFixed(houses.cusps[i], 6),
         longitude_formatted |-> formatLongitude(houses.cusps[i] * Scale)]]

RECURSIVE Flatten(_)
Flatten(seqs) == IF seqs = <<>> THEN <<>> ELSE Head(seqs) \o Flatten(Tail(seqs))

\* Object.entries order of the planets of a chart and of a transit snapshot
\* formatBirthChartDataAsXML(chartData)
formatBirthChartDataAsXML(chartData) ==
  IF ~Has(chartData, "planets") \/ ~Has(chartData, "houses")
  THEN Marker(InsufficientChart)
  ELSE LET names  == SelectSeq((PLANET_NAMES \o <<"Ketu">>), LAMBDA n : n \in DOMAIN chartData.planets)
           bodies == [i \in 1..Len(names) |->
                        ChartPlanet(names[i], chartData.planets[names[i]], chartData)]
           houses == chartData.houses
       IN IF \E i \in 1..Len(names) : bodies[i].threw
          THEN Thrown
          ELSE IF ~Has(houses, "ascendant") \/ ~Has(houses, "mc") \/ ~Has(houses, "cusps")
          THEN Thrown
          ELSE Document(ChartHeader(chartData)
                        \o Flatten([i \in 1..Len(names) |-> bodies[i].element])
                        \o ChartCusps(houses))

\* formatTransitDataAsXML(transitData)
formatTransitDataAsXML(transitData) ==
  IF ~Has(transitData, "date") \/ ~Has(transitData, "planets")
  THEN Marker(InsufficientTransit)
  ELSE LET names == SelectSeq(PLANET_KEYS, LAMBDA n : n \in DOMAIN transitData.planets)
           data(i) == transitData.planets[names[i]]
       IN IF \E i \in 1..Len(names) : ~Has(data(i), "longitude")
          THEN Thrown
          ELSE Document(
                 <<[tag |-> "transit_date", value |-> transitData.date]>>
                 \o [i \in 1..Len(names) |->
                       [tag |-> "planet", name |-> names[i],
                        longitude_decimal |-> toFixed(data(i).longitude, 6),
                        longitude_formatted |-> formatLongitude(data(i).longitude * Scale),
                        speed_longitude_per_day |->
                          Opt(Has(data(i), "speedLon"), toFixed(data(i).speedLon, 6))]])

StoredChart(a) ==
  LET chartRawData ==
        JSON_parse(JSON_stringify(calculateBirthChartData(a, SID_DEFAULT, FALSE, 0).chart[1]))
  IN [k \in DOMAIN chartRawData \cup {"name", "gender"} |->
        IF k = "name" THEN "Asha" ELSE IF k = "gender" THEN "female" ELSE chartRawData[k]]

\* chart c without the parts named in gone
StripChart(c, gone) ==
  LET top == Without(c, gone \cap {"planets", "houses", "houseSystem"})
  IN [k \in DOMAIN top |->
        IF k = "houses" THEN Without(c.houses, gone \cap {"ascendant", "mc", "cusps"})
        ELSE IF k = "planets" /\ "Sun.longitude" \in gone
        THEN [n \in DOMAIN c.planets |->
                IF n = "Sun" THEN Without(c.planets.Sun, {"longitude"}) ELSE c.planets[n]]
        ELSE top[k]]

\* transit snapshot t without the parts named in gone
StripTransit(t, gone) ==
  LET top == Without(t, gone \cap {"date", "planets"})
  IN [k \in DOMAIN top |->
        IF k = "planets" /\ "SE_SUN.longitude" \in gone
        THEN [n \in DOMAIN t.planets |->
                IF n = "SE_SUN" THEN Without(t.planets.SE_SUN, {"longitude"})
                ELSE t.planets[n]]
        ELSE top[k]]

TransitSnapshot(month) ==
  getTransitDataForMonth(month, SID_DEFAULT, FALSE, 0, "zeros").chart[1]

(* ------------------------------- state --------------------------------- *)
VARIABLES
  anthropic,   \* claude.js: the client, TRUE iff CLAUDE_API_KEY is set
  ci,          \* the frame of the getClaudeInsight call in progress / last ended
  sidMode,     \* the oracle's process-wide sidereal mode
  ephOpen,     \* TRUE iff the oracle holds open ephemeris files
  last,        \* the last oracle-backed call: what was asked, what came out
  users,       \* User rows: id -> [planId, credits]
  birthCharts, \* BirthChart rows
  conversations, \* Conversation rows
  messages,    \* Message rows
  req,         \* the frames of the createBirthChart requests in flight
  call,        \* the last call of an astroLogic.js helper: arguments and outcome
  op,          \* the frames of the other actions and queries in flight
  nextId       \* the autoincrement counters of Conversation and Message

insightVars == <<anthropic, ci>>
oracleVars  == <<sidMode, ephOpen, last>>
storeVars   == <<users, birthCharts, conversations, messages, req>>
helperVars  == <<call>>
opVars      == <<op, nextId>>
vars == <<anthropic, ci, sidMode, ephOpen, last, users, birthCharts, conversations, messages,
          req, call, op, nextId>>

InitOracleVars ==
  /\ sidMode = SID_DEFAULT
  /\ ephOpen = FALSE
  /\ last = ([fn |-> "none", calcArgs |-> <<>>, month |-> <<>>, failAt |-> 0,
          xxOnError |-> "zeros", oracleErr |-> FALSE, queries |-> <<>>, housesAsked |-> FALSE,
          ok |-> FALSE, error |-> "none", chart |-> <<>>])

\* no helper has been called
NoHelperCall == [fn |-> "none", arg |-> <<>>, pc |-> "none", threw |-> FALSE, out |-> <<>>]

\* request slots, and the frame of a slot no request occupies
\*   user         : what checkUserLimits read (<<>> before it has run)
\*   oracleFailed : history, TRUE iff the instant resolution or an oracle
\*                  query failed during this request's chart calculation
\*   newChart     : the id of the BirthChart row this request created (0: none)
\*   status/stage : the HttpError the request ended with and where it arose
Reqs == {"r1", "r2"}
IdleReq ==
  [pc |-> "idle", userId |-> 0, args |-> <<>>, user |-> <<>>, timezone |-> "none",
   oracleFailed |-> FALSE, chartRawData |-> <<>>, newChart |-> 0,
   status |-> 0, stage |-> "none", result |-> <<>>]

\* request slots of the other operations, and the frame of a free slot
\*   user        : the row checkUserLimits read (<<>> before it has run)
\*   sent        : the messages handed to getClaudeInsight
\*   decremented : history, the credits this call has taken from its user
\*   removed     : history, the rows this call has deleted
\*   status/stage: the HttpError the request ended with and where it arose
OpSlots == {"o1", "o2"}
IdleOp ==
  [kind |-> "none", pc |-> "idle", userId |-> 0, chartId |-> 0, convId |-> 0,
   question |-> "", user |-> <<>>, chart |-> <<>>, sent |-> <<>>, decremented |-> 0,
   removed |-> 0, status |-> 0, stage |-> "none", result |-> <<>>]

InitOpVars ==
  /\ op = [s \in OpSlots |-> IdleOp]
  /\ nextId = [conv |-> 1, msg |-> 1]

InitStoreVars ==
  /\ users = [u \in {1} |-> [planId |-> "free_trial", credits |-> 3, isAdmin |-> FALSE]]
  /\ birthCharts = {}
  /\ conversations = {}
  /\ messages = {}
  /\ req = [r \in Reqs |-> IdleReq]

InitInsight ==
  LET InitInsightVars ==
      /\ anthropic \in BOOLEAN
      /\ ci = IdleFrame
  IN
  /\ InitInsightVars
  /\ InitOracleVars
  /\ InitStoreVars
  /\ InitOpVars
  /\ call = NoHelperCall

\* a caller invokes getClaudeInsight(systemPrompt, messages, userPlan, userId)
Call(userPlan, inputLen) ==
  /\ ci.pc # "running"
  /\ ci' = StartFrame(anthropic, userPlan, inputLen)
  /\ UNCHANGED <<opVars, helperVars, anthropic, oracleVars, storeVars>>

\* one iteration of the while loop whose request succeeds
AttemptOk(resp, dbOk) ==
  /\ LoopContinues(ci)
  /\ ci' = OnResponse(ci, resp, dbOk)
  /\ UNCHANGED <<opVars, helperVars, anthropic, oracleVars, storeVars>>

\* one iteration of the while loop whose request fails
AttemptErr(msg, dbOk) ==
  /\ LoopContinues(ci)
  /\ ci' = OnError(ci, msg, dbOk)
  /\ UNCHANGED <<opVars, helperVars, anthropic, oracleVars, storeVars>>

NextInsight ==
  \/ \E p \in ({"free_trial", "basic", "premium"}), l \in Lens : Call(p, l)
  \/ \E r \in Responses, d \in BOOLEAN : AttemptOk(r, d)
  \/ \E m \in ErrMsgs, d \in BOOLEAN : AttemptErr(m, d)

SpecInsight == InitInsight /\ [][NextInsight]_vars

\* the provider answers every request (with a response or an error)
FairInsight ==
  SpecInsight /\ WF_vars(\E r \in Responses, d \in BOOLEAN : AttemptOk(r, d))
              /\ WF_vars(\E m \in ErrMsgs, d \in BOOLEAN : AttemptErr(m, d))

(* -------------------- the oracle-backed operations --------------------- *)
\* history: TRUE iff the oracle was queried during the call and reported an
\* error (the queries are reached only once the instant has been resolved)
OracleErrInCalc(a, failAt) ==
  /\ getJulianDayUT(a.birthDate, a.birthTime, a.timezone).ok
  /\ failAt # 0

\* a request handler calls calculateBirthChartData(...); the call runs to
\* its end without yielding (it contains no await)
CalcCall(a, failAt) ==
  LET r == calculateBirthChartData(a, sidMode, ephOpen, failAt)
  IN /\ sidMode' = r.sidMode
     /\ ephOpen' = r.ephOpen
     /\ last' = [fn |-> "calc", calcArgs |-> <<a>>, month |-> <<>>,
                 failAt |-> IF r.ok THEN 0 ELSE 1, xxOnError |-> "zeros",
                 oracleErr |-> OracleErrInCalc(a, failAt),
                 queries |-> r.queries, housesAsked |-> r.housesAsked,
                 ok |-> r.ok, error |-> r.error, chart |-> r.chart]
     /\ UNCHANGED <<opVars, helperVars, insightVars, storeVars>>

\* the monthly job calls getTransitDataForMonth()
TransitCall(month, failAt, xxOnError) ==
  LET r == getTransitDataForMonth(month, sidMode, ephOpen, failAt, xxOnError)
  IN /\ sidMode' = r.sidMode
     /\ ephOpen' = r.ephOpen
     /\ last' = [fn |-> "transit", calcArgs |-> <<>>, month |-> <<month>>,
                 failAt |-> failAt, xxOnError |-> xxOnError,
                 oracleErr |-> failAt \in 1..NumPlanets,
                 queries |-> r.queries, housesAsked |-> r.housesAsked,
                 ok |-> r.ok, error |-> r.error, chart |-> r.chart]
     /\ UNCHANGED <<opVars, helperVars, insightVars, storeVars>>

InitOracle ==
  /\ anthropic = TRUE
  /\ ci = IdleFrame
  /\ InitOracleVars
  /\ InitStoreVars
  /\ InitOpVars
  /\ call = NoHelperCall

\* what the destructured xx holds when the oracle reports an error: the
\* zeroed output array, or nothing at all (reading xx[0] then throws)
NextOracle ==
  \/ \E a \in CalcArgs, f \in FailPoints : CalcCall(a, f)
  \/ \E m \in TransitMonths, f \in FailPoints \ {FailHouses}, x \in ({"zeros",
          "undefined"}) : TransitCall(m, f, x)

SpecOracle == InitOracle /\ [][NextOracle]_vars

(* ================= actions/astrology.js: createBirthChart =============== *)
FREE_TRIAL_CHART_LIMIT == 1
BASIC_PLAN_CHART_LIMIT == 3

MaxCharts == 2       \* createBirthChart is not started once this many ids are used

\* birthInfoSchema: /^\d{4}-\d{2}-\d{2}$/ on the date, /^\d{2}:\d{2}$/ on the
\* time, a non-empty location (dates and times are held as number tuples)
MatchesDateShape(d) == d[1] \in 0..9999 /\ d[2] \in 0..99 /\ d[3] \in 0..99
birthInfoSchemaOk(args) ==
  LET MatchesTimeShape(t) ==
      t[1] \in 0..99 /\ t[2] \in 0..99
  IN
  /\ MatchesDateShape(args.birthDate)
  /\ MatchesTimeShape(args.birthTime)
  /\ args.birthLocation # ""

\* the argument objects a client sends
CreateArgs ==
  { [birthDate |-> <<1990, 7, 21>>,  birthTime |-> <<9, 15>>,  birthLocation |-> "Paris"],
    [birthDate |-> <<1990, 13, 45>>, birthTime |-> <<9, 15>>,  birthLocation |-> "Paris"],
    [birthDate |-> <<1990, 7, 21>>,  birthTime |-> <<9, 150>>, birthLocation |-> "Paris"],
    [birthDate |-> <<1990, 7, 21>>,  birthTime |-> <<25, 61>>, birthLocation |-> "Paris"],
    [birthDate |-> <<1990, 7, 21>>,  birthTime |-> <<9, 15>>,  birthLocation |-> ""] }

IsFreeTrial(planId) == planId = "none" \/ planId = "free_trial"

ChartCount(u) == Cardinality({c \in birthCharts : c.userId = u})
NextChartId   == 1 + Cardinality({c.id : c \in birthCharts})

Fail(r, status, stage) ==
  req' = [req EXCEPT ![r].pc = "failed", ![r].status = status, ![r].stage = stage]

\* a client invokes the action; context.user is u (0: not authenticated)
CbcStart(r, u, args) ==
  /\ req[r].pc \in {"idle", "done", "failed"}
  /\ NextChartId <= MaxCharts
  /\ IF u = 0
     THEN req' = [req EXCEPT ![r] = [IdleReq EXCEPT !.pc = "failed", !.args = <<args>>,
                                       !.status = 401, !.stage = "auth"]]
     ELSE req' = [req EXCEPT ![r] = [IdleReq EXCEPT !.pc = "limits", !.userId = u,
                                       !.args = <<args>>]]
  /\ UNCHANGED <<opVars, helperVars, insightVars, oracleVars, users, birthCharts, conversations, messages>>

\* checkUserLimits(userId, 'createChart'), then birthInfoSchema.safeParse
CbcCheckLimits(r) ==
  LET u     == req[r].userId
      count == ChartCount(u)
  IN /\ req[r].pc = "limits"
     /\ IF u \notin DOMAIN users
        THEN Fail(r, 404, "limits")
        ELSE IF IsFreeTrial(users[u].planId) /\ count >= FREE_TRIAL_CHART_LIMIT
        THEN Fail(r, 403, "limits")
        ELSE IF users[u].planId = "basic" /\ count >= BASIC_PLAN_CHART_LIMIT
        THEN Fail(r, 403, "limits")
        ELSE IF ~birthInfoSchemaOk(req[r].args[1])
        THEN Fail(r, 400, "validation")
        ELSE req' = [req EXCEPT ![r].pc = "geocode",
                       ![r].user = <<[planId |-> users[u].planId, count |-> count]>>]
     /\ UNCHANGED <<opVars, helperVars, insightVars, oracleVars, users, birthCharts, conversations, messages>>

\* geocodeAddress answers: coordinates, null (not found), or it throws
CbcGeocode(r, outcome) ==
  /\ req[r].pc = "geocode"
  /\ CASE outcome = "ok"   -> req' = [req EXCEPT ![r].pc = "timezone"]
       [] outcome = "null" -> Fail(r, 400, "geocode")
       [] OTHER            -> Fail(r, 500, "geocode")
  /\ UNCHANGED <<opVars, helperVars, insightVars, oracleVars, users, birthCharts, conversations, messages>>

\* getTimezone answers (a zone id, null, or it throws); with a zone id the
\* handler goes on to calculateBirthChartData(..., 'P', 'Lahiri')
CbcTimezone(r, outcome, failAt) ==
  LET a == req[r].args[1]
      calc == calculateBirthChartData(
                [birthDate |-> a.birthDate, birthTime |-> a.birthTime,
                 latitude |-> 41, longitude |-> -74, timezone |-> outcome,
                 houseSystemChar |-> "P", ayanamsaName |-> "Lahiri"],
                sidMode, ephOpen, failAt)
  IN /\ req[r].pc = "timezone"
     /\ IF outcome = "null"
        THEN Fail(r, 400, "timezone") /\ UNCHANGED <<sidMode, ephOpen>>
        ELSE IF outcome = "throw"
        THEN Fail(r, 500, "timezone") /\ UNCHANGED <<sidMode, ephOpen>>
        ELSE /\ sidMode' = calc.sidMode
             /\ ephOpen' = calc.ephOpen
             /\ IF calc.ok
                THEN req' = [req EXCEPT ![r].pc = "store", ![r].timezone = outcome,
                               ![r].oracleFailed = (failAt # 0 \/ ~IsCalendarDate(a.birthDate)),
                               ![r].chartRawData = calc.chart]
                ELSE req' = [req EXCEPT ![r].pc = "failed", ![r].status = 500,
                               ![r].stage = "calc", ![r].oracleFailed = TRUE]
     /\ UNCHANGED <<opVars, helperVars, insightVars, last, users, birthCharts, conversations, messages>>

\* prisma.birthChart.create, then the branch on "first chart of a free user"
CbcStore(r, dbOk) ==
  LET f == req[r]
      row == [id |-> NextChartId, userId |-> f.userId, timezone |-> f.timezone,
              planetaryPositionsJson |-> JSON_stringify(f.chartRawData[1])]
  IN /\ f.pc = "store"
     /\ IF ~dbOk
        THEN Fail(r, 500, "store") /\ UNCHANGED birthCharts
        ELSE /\ birthCharts' = birthCharts \cup {row}
             /\ IF IsFreeTrial(f.user[1].planId) /\ f.user[1].count = 0
                THEN req' = [req EXCEPT ![r].pc = "decrement", ![r].newChart = row.id]
                ELSE req' = [req EXCEPT ![r].pc = "done", ![r].newChart = row.id,
                               ![r].result = <<[id |-> row.id,
                                                planetaryPositions |-> f.chartRawData[1]]>>]
     /\ UNCHANGED <<opVars, helperVars, insightVars, oracleVars, users, conversations, messages>>

\* decrementUserCredits(user.id)
CbcDecrement(r) ==
  LET u == req[r].userId
  IN /\ req[r].pc = "decrement"
     /\ users' = IF u \in DOMAIN users /\ users[u].planId # "premium"
                 THEN [users EXCEPT ![u].credits = @ - 1]
                 ELSE users
     /\ req' = [req EXCEPT ![r].pc = "insight"]
     /\ UNCHANGED <<opVars, helperVars, insightVars, oracleVars, birthCharts, conversations, messages>>

\* getClaudeInsight(systemPrompt, messages, user.planId || 'free_trial', user.id)
CbcCallInsight(r, inputLen) ==
  LET plan == IF req[r].user[1].planId = "none" THEN "free_trial" ELSE req[r].user[1].planId
  IN /\ req[r].pc = "insight"
     /\ ci.pc # "running" /\ ci.owner = "none"
     /\ ci' = [StartFrame(anthropic, plan, inputLen) EXCEPT !.owner = r]
     /\ req' = [req EXCEPT ![r].pc = "awaitInsight"]
     /\ UNCHANGED <<opVars, helperVars, anthropic, oracleVars, users, birthCharts, conversations, messages>>

\* the insight call has ended: a raised error goes to the catch block, a
\* result is stored as a conversation with one assistant message
CbcAfterInsight(r, outcome) ==
  LET ai   == ci.result[1]
      conv == [id |-> (1 + Cardinality(conversations)), userId |-> req[r].userId, birthChartId |-> req[r].newChart]
      msg  == [conversationId |-> conv.id, role |-> "assistant",
               contentLen |-> ai.contentLen, modelUsed |-> ai.modelUsed,
               tokenCount |-> Reported(ai.usage, "input_tokens")
                              + Reported(ai.usage, "output_tokens"),
               cost |-> ai.cost]
  IN /\ req[r].pc = "awaitInsight"
     /\ ci.owner = r /\ ci.pc \in {"returned", "raised"}
     /\ ci' = IdleFrame
     /\ IF ci.pc = "raised"
        THEN Fail(r, 500, "insight") /\ UNCHANGED <<conversations, messages>>
        ELSE IF outcome = "convFails"
        THEN Fail(r, 500, "conversation") /\ UNCHANGED <<conversations, messages>>
        ELSE IF outcome = "msgFails"
        THEN /\ Fail(r, 500, "message")
             /\ conversations' = conversations \cup {conv}
             /\ UNCHANGED messages
        ELSE /\ conversations' = conversations \cup {conv}
             /\ messages' = messages \cup {msg}
             /\ req' = [req EXCEPT ![r].pc = "done",
                          ![r].result = <<[id |-> req[r].newChart,
                                           planetaryPositions |-> req[r].chartRawData[1]]>>]
     /\ UNCHANGED <<opVars, helperVars, anthropic, oracleVars, users, birthCharts>>

InitCreate ==
  /\ anthropic \in BOOLEAN
  /\ ci = IdleFrame
  /\ InitOracleVars
  /\ users \in [{1} -> [planId : {"none", "free_trial", "basic", "premium"}, credits : {3},
                         isAdmin : {FALSE}]]
  /\ birthCharts = {}
  /\ conversations = {}
  /\ messages = {}
  /\ req = [r \in Reqs |-> IdleReq]
  /\ InitOpVars
  /\ call = NoHelperCall

\* the provider answers used when the insight call is made for a request
NextCreate ==
  \/ \E r \in Reqs, u \in {0, 1}, a \in CreateArgs : CbcStart(r, u, a)
  \/ \E r \in Reqs : CbcCheckLimits(r)
  \/ \E r \in Reqs, o \in {"ok", "null", "throw"} : CbcGeocode(r, o)
  \/ \E r \in Reqs, o \in Zones \cup {"null", "throw"}, f \in FailPoints : CbcTimezone(r, o, f)
  \/ \E r \in Reqs, d \in BOOLEAN : CbcStore(r, d)
  \/ \E r \in Reqs : CbcDecrement(r)
  \/ \E r \in Reqs : CbcCallInsight(r, 4)
  \/ \E resp \in ({ [usage |-> <<[input_tokens |-> 1, output_tokens |-> 1]>>, textLen |-> 4] }) : AttemptOk(resp, TRUE)
  \/ \E m \in {"overloaded"} : AttemptErr(m, TRUE)
  \/ \E r \in Reqs, o \in {"ok", "convFails", "msgFails"} : CbcAfterInsight(r, o)

SpecCreate == InitCreate /\ [][NextCreate]_vars

(* ====== actions/astrology.js, queries/astrology.js: the other operations ==== *)
\* include: { messages: { orderBy: { createdAt: 'asc' }, take: 10 } }
HISTORY_TAKE == 10

\* the rows the operations below start from: user 1 on the basic plan with
\* one credit left, user 2 a premium subscriber and admin, one chart each,
\* and a conversation of user 1 about chart 1 holding six questions and the
\* answers to five of them (message ids follow the order of createdAt)
StoredArgs(ayanamsaName) ==
  [birthDate |-> <<1990, 7, 21>>, birthTime |-> <<6, 0>>, latitude |-> 41, longitude |-> -74,
   timezone |-> "UTC", houseSystemChar |-> "P", ayanamsaName |-> ayanamsaName]

StoredJson(ayanamsaName) ==
  JSON_stringify(calculateBirthChartData(StoredArgs(ayanamsaName), SID_DEFAULT, FALSE, 0).chart[1])

StoredMessages == 11

InitStore ==
  /\ anthropic = TRUE
  /\ ci = IdleFrame
  /\ InitOracleVars
  /\ call = NoHelperCall
  /\ req = [r \in Reqs |-> IdleReq]
  /\ users = (1 :> [planId |-> "basic", credits |-> 1, isAdmin |-> FALSE])
          @@ (2 :> [planId |-> "premium", credits |-> 0, isAdmin |-> TRUE])
  /\ birthCharts =
       { [id |-> 1, userId |-> 1, timezone |-> "UTC",
          planetaryPositionsJson |-> StoredJson("Lahiri")],
         [id |-> 2, userId |-> 2, timezone |-> "UTC",
          planetaryPositionsJson |-> StoredJson("TROPICAL")] }
  /\ conversations = { [id |-> 1, userId |-> 1, birthChartId |-> 1] }
  /\ messages = { [id |-> i, conversationId |-> 1,
                   role |-> IF i % 2 = 1 THEN "user" ELSE "assistant",
                   content |-> <<"stored", i>>] : i \in 1..StoredMessages }
  /\ op = [s \in OpSlots |-> IdleOp]
  /\ nextId = [conv |-> 2, msg |-> StoredMessages + 1]

SlotFree(s) == op[s].pc \in {"idle", "done", "failed"}

\* the frame of a request that has ended: what it was, what it took and
\* removed, how it ended
EndFrame(f, pc, status, stage, result) ==
  [IdleOp EXCEPT !.kind = f.kind, !.pc = pc, !.userId = f.userId, !.chartId = f.chartId,
                 !.decremented = f.decremented, !.removed = f.removed,
                 !.status = status, !.stage = stage, !.result = result]

OpFail(s, status, stage) ==
  op' = [op EXCEPT ![s] = EndFrame(op[s], "failed", status, stage, <<>>)]

\* the row with this id, as a sequence of at most one element (findUnique)
ChartById(chartId) ==
  IF \E c \in birthCharts : c.id = chartId
  THEN <<CHOOSE c \in birthCharts : c.id = chartId>>
  ELSE <<>>

(* ---------------- queries/astrology.js: getBirthChartDetails ------------ *)
\* where: { id: chartId, OR: [ { userId: context.user.id },
\*                             { user: { isAdmin: context.user.isAdmin ? true : undefined } } ] }
\* Prisma leaves a field whose value is undefined out of the filter, and a
\* relation filter with no field left ({ user: {} }) matches every row that
\* has a user; with isAdmin: true it matches the charts whose owner is an admin
OwnerBranch(c, requester) == c.userId = requester

AdminBranch(c, requesterIsAdmin) ==
  IF requesterIsAdmin THEN users[c.userId].isAdmin ELSE TRUE

DetailsWhere(c, chartId, requester) ==
  /\ c.id = chartId
  /\ OwnerBranch(c, requester) \/ AdminBranch(c, users[requester].isAdmin)

\* const { planetaryPositionsJson, ...chartDetails } = birthChart;
\* return { ...chartDetails, planetaryPositions }
ChartDetails(c) ==
  [id |-> c.id, userId |-> c.userId, timezone |-> c.timezone,
   planetaryPositions |-> JSON_parse(c.planetaryPositionsJson)]

\* getBirthChartDetails({ id: chartId }, context), context.user is u (0: none)
DetailsCall(s, u, chartId) ==
  LET frame == [IdleOp EXCEPT !.kind = "details", !.userId = u, !.chartId = chartId]
      found == {c \in birthCharts : DetailsWhere(c, chartId, u)}
  IN /\ SlotFree(s)
     /\ op' = [op EXCEPT ![s] =
          IF u = 0 THEN EndFrame(frame, "failed", 401, "auth", <<>>)
          ELSE IF chartId = 0
          THEN EndFrame(frame, "failed", 400, "args", <<>>)
          ELSE IF found = {}
          THEN EndFrame(frame, "failed", 404, "find", <<>>)
          ELSE [frame EXCEPT !.pc = "done",
                             !.result = <<ChartDetails(CHOOSE c \in found : TRUE)>>]]
     /\ UNCHANGED <<nextId, helperVars, insightVars, oracleVars, storeVars>>

(* ------------------ actions/astrology.js: deleteBirthChart -------------- *)
\* the conversations about a chart, and the messages in them
ConvsOf(chartId) == {c \in conversations : c.birthChartId = chartId}
MsgsOf(chartId)  == {m \in messages : \E c \in ConvsOf(chartId) : m.conversationId = c.id}

\* the checks ahead of the try block (lines 323-331)
DelStart(s, u, chartId) ==
  LET frame == [IdleOp EXCEPT !.kind = "delete", !.userId = u, !.chartId = chartId]
      chart == ChartById(chartId)
  IN /\ SlotFree(s)
     /\ op' = [op EXCEPT ![s] =
          IF u = 0 THEN EndFrame(frame, "failed", 401, "auth", <<>>)
          ELSE IF chartId = 0
          THEN EndFrame(frame, "failed", 400, "args", <<>>)
          ELSE IF chart = <<>>
          THEN EndFrame(frame, "failed", 404, "find", <<>>)
          ELSE IF chart[1].userId # u /\ ~users[u].isAdmin
          THEN EndFrame(frame, "failed", 403, "permission", <<>>)
          ELSE [frame EXCEPT !.pc = "delMessages"]]
     /\ UNCHANGED <<nextId, helperVars, insightVars, oracleVars, storeVars>>

\* prisma.message.deleteMany({ where: { conversation: { birthChartId: chartId } } })
DelMessages(s, dbOk) ==
  LET gone == MsgsOf(op[s].chartId)
  IN /\ op[s].kind = "delete" /\ op[s].pc = "delMessages"
     /\ IF ~dbOk
        THEN OpFail(s, 500, "delMessages") /\ UNCHANGED messages
        ELSE /\ messages' = messages \ gone
             /\ op' = [op EXCEPT ![s].pc = "delConversations",
                                 ![s].removed = @ + Cardinality(gone)]
     /\ UNCHANGED <<nextId, helperVars, insightVars, oracleVars, users, birthCharts,
                    conversations, req>>

\* prisma.conversation.deleteMany({ where: { birthChartId: chartId } }); the
\* statement fails as a whole while a message still refers to one of the rows
\* (Message.conversation is a required relation)
DelConversations(s, dbOk) ==
  LET gone == ConvsOf(op[s].chartId)
  IN /\ op[s].kind = "delete" /\ op[s].pc = "delConversations"
     /\ IF ~dbOk \/ MsgsOf(op[s].chartId) # {}
        THEN OpFail(s, 500, "delConversations") /\ UNCHANGED conversations
        ELSE /\ conversations' = conversations \ gone
             /\ op' = [op EXCEPT ![s].pc = "delChart",
                                 ![s].removed = @ + Cardinality(gone)]
     /\ UNCHANGED <<nextId, helperVars, insightVars, oracleVars, users, birthCharts,
                    messages, req>>

\* a variant that keeps the row and blanks its snapshot
WithoutChart_Blanked(charts, chartId) ==
  {IF c.id = chartId THEN [c EXCEPT !.planetaryPositionsJson = <<"json", <<>>>>] ELSE c :
     c \in charts}

\* the rows left by prisma.birthChart.delete({ where: { id: chartId } })
WithoutChart(charts, chartId) == {c \in charts : c.id # chartId}

\* prisma.birthChart.delete: fails when the row is gone; a conversation that
\* still refers to the chart has its optional birthChartId set to null
DelChart(s, dbOk) ==
  LET chartId == op[s].chartId
  IN /\ op[s].kind = "delete" /\ op[s].pc = "delChart"
     /\ IF ~dbOk \/ ChartById(chartId) = <<>>
        THEN OpFail(s, 500, "delChart") /\ UNCHANGED <<birthCharts, conversations>>
        ELSE /\ birthCharts' = WithoutChart(birthCharts, chartId)
             /\ conversations' = {IF c.birthChartId = chartId
                                  THEN [c EXCEPT !.birthChartId = 0] ELSE c :
                                    c \in conversations}
             /\ op' = [op EXCEPT ![s] =
                    EndFrame([op[s] EXCEPT !.removed = @ + 1], "done", 0, "none",
                             <<[success |-> TRUE]>>)]
     /\ UNCHANGED <<nextId, helperVars, insightVars, oracleVars, users, messages, req>>

(* ------- actions/astrology.js: getAstrologyReport, askAstrologyQuestion -- *)
\* checkUserLimits(userId, 'aiInsight'): the 403 conditions (lines 33-40)
AiInsightDenied(user) ==
  \/ IsFreeTrial(user.planId) /\ user.credits <= 0
  \/ user.planId = "basic" /\ user.credits <= 0

\* decrementUserCredits(userId): the User rows it leaves
decrementUserCredits(u) ==
  IF u \in DOMAIN users /\ users[u].planId # "premium"
  THEN [users EXCEPT ![u].credits = @ - 1]
  ELSE users

\* { ...chartRawData, name: birthChart.name, gender: birthChart.gender }
ChartDataForXML(row) ==
  LET chartRawData == JSON_parse(row.planetaryPositionsJson)
  IN [k \in DOMAIN chartRawData \cup {"name", "gender"} |->
        IF k = "name" THEN "Asha" ELSE IF k = "gender" THEN "female" ELSE chartRawData[k]]

\* prisma.birthChart.findUnique({ where: { id: birthChartId, userId: user.id } })
OwnChart(chartId, u) ==
  IF \E c \in birthCharts : c.id = chartId /\ c.userId = u
  THEN <<CHOOSE c \in birthCharts : c.id = chartId /\ c.userId = u>>
  ELSE <<>>

\* the messages of a conversation, oldest first (orderBy: { createdAt: 'asc' })
RECURSIVE Ascending(_)
Ascending(ms) ==
  IF ms = {} THEN <<>>
  ELSE LET first == CHOOSE m \in ms : \A n \in ms : m.id <= n.id
       IN <<first>> \o Ascending(ms \ {first})

\* take: n, applied to the ordered rows
Take(rows, n) == IF Len(rows) <= n THEN rows ELSE SubSeq(rows, 1, n)

\* existingConv.messages.map(m => ({ role: m.role, content: m.content }))
RoleAndContent(rows) == [i \in 1..Len(rows) |-> [role |-> rows[i].role, content |-> rows[i].content]]

\* getAstrologyReport: the checks up to and including checkUserLimits
RptStart(s, u, chartId) ==
  LET frame == [IdleOp EXCEPT !.kind = "report", !.userId = u, !.chartId = chartId]
  IN /\ SlotFree(s)
     /\ op' = [op EXCEPT ![s] =
          IF u = 0 THEN EndFrame(frame, "failed", 401, "auth", <<>>)
          ELSE IF chartId = 0
          THEN EndFrame(frame, "failed", 400, "args", <<>>)
          ELSE IF u \notin DOMAIN users
          THEN EndFrame(frame, "failed", 404, "limits", <<>>)
          ELSE IF AiInsightDenied(users[u])
          THEN EndFrame(frame, "failed", 403, "limits", <<>>)
          ELSE [frame EXCEPT !.pc = "find", !.user = <<users[u]>>]]
     /\ UNCHANGED <<nextId, helperVars, insightVars, oracleVars, storeVars>>

\* askAstrologyQuestion: astrologyQuestionSchema, then checkUserLimits
AskStart(s, u, args) ==
  LET frame == [IdleOp EXCEPT !.kind = "ask", !.userId = u, !.chartId = args.birthChartId,
                              !.convId = args.conversationId, !.question = args.question]
  IN /\ SlotFree(s)
     /\ op' = [op EXCEPT ![s] =
          IF u = 0 THEN EndFrame(frame, "failed", 401, "auth", <<>>)
          ELSE IF args.birthChartId <= 0 \/ args.conversationId < 0 \/ args.question = ""
          THEN EndFrame(frame, "failed", 400, "validation", <<>>)
          ELSE IF u \notin DOMAIN users
          THEN EndFrame(frame, "failed", 404, "limits", <<>>)
          ELSE IF AiInsightDenied(users[u])
          THEN EndFrame(frame, "failed", 403, "limits", <<>>)
          ELSE [frame EXCEPT !.pc = "find", !.user = <<users[u]>>]]
     /\ UNCHANGED <<nextId, helperVars, insightVars, oracleVars, storeVars>>

\* both actions: the chart is looked up with the user's id; the report then
\* formats it and builds its one message
FindChart(s) ==
  LET f     == op[s]
      chart == OwnChart(f.chartId, f.userId)
  IN /\ f.kind \in {"report", "ask"} /\ f.pc = "find"
     /\ IF chart = <<>>
        THEN OpFail(s, 404, "find")
        ELSE IF f.kind = "ask"
        THEN op' = [op EXCEPT ![s].pc = "conversation", ![s].chart = chart]
        ELSE IF formatBirthChartDataAsXML(ChartDataForXML(chart[1])).threw
        THEN OpFail(s, 500, "format")
        ELSE op' = [op EXCEPT ![s].pc = "decrement", ![s].chart = chart,
                      ![s].sent = <<[role |-> "user",
                                     content |-> <<"birth_chart_data", f.chartId>>]>>]
     /\ UNCHANGED <<nextId, helperVars, insightVars, oracleVars, storeVars>>

\* askAstrologyQuestion, lines 241-276: the conversation is fetched with its
\* messages or created, the question is stored, the chart is formatted and
\* messagesForClaude is built
AskConversation(s) ==
  LET f        == op[s]
      found    == {c \in conversations : c.id = f.convId /\ c.userId = f.userId}
      stored   == Ascending({m \in messages : m.conversationId = f.convId})
      existing == IF f.convId # 0 THEN RoleAndContent(Take(stored, HISTORY_TAKE)) ELSE <<>>
      convId   == IF f.convId # 0 THEN f.convId ELSE nextId.conv
      newConv  == [id |-> nextId.conv, userId |-> f.userId, birthChartId |-> f.chartId]
      question == [id |-> nextId.msg, conversationId |-> convId, role |-> "user",
                   content |-> <<"question", nextId.msg>>]
  IN /\ f.kind = "ask" /\ f.pc = "conversation"
     /\ IF f.convId # 0 /\ found = {}
        THEN /\ OpFail(s, 404, "conversation")
             /\ UNCHANGED <<conversations, messages, nextId>>
        ELSE IF f.convId = 0 /\ ChartById(f.chartId) = <<>>
        THEN /\ OpFail(s, 500, "conversation")
             /\ UNCHANGED <<conversations, messages, nextId>>
        ELSE /\ conversations' = IF f.convId # 0 THEN conversations
                                 ELSE conversations \cup {newConv}
             /\ messages' = messages \cup {question}
             /\ nextId' = [conv |-> IF f.convId # 0 THEN nextId.conv ELSE nextId.conv + 1,
                           msg |-> nextId.msg + 1]
             /\ IF formatBirthChartDataAsXML(ChartDataForXML(f.chart[1])).threw
                THEN OpFail(s, 500, "format")
                ELSE op' = [op EXCEPT ![s].pc = "decrement", ![s].convId = convId,
                              ![s].sent = existing \o
                                  <<[role |-> "user",
                                     content |-> <<"birth_chart_data+user_query", nextId.msg>>]>>]
     /\ UNCHANGED <<helperVars, insightVars, oracleVars, users, birthCharts, req>>

\* await decrementUserCredits(user.id) (lines 186 and 291)
DecrementStep(s) ==
  LET f == op[s]
  IN /\ f.kind \in {"report", "ask"} /\ f.pc = "decrement"
     /\ users' = decrementUserCredits(f.userId)
     /\ op' = [op EXCEPT ![s].pc = "insight",
                         ![s].decremented = @ + (users[f.userId].credits
                                                 - users'[f.userId].credits)]
     /\ UNCHANGED <<nextId, helperVars, insightVars, oracleVars, birthCharts, conversations,
                    messages, req>>

\* getAstrologyReport, lines 187-210: getClaudeInsight, then the report is
\* stored as a new conversation (of a chart that must still exist) with one
\* assistant message
RptInsight(s, outcome) ==
  LET f    == op[s]
      conv == [id |-> nextId.conv, userId |-> f.userId, birthChartId |-> f.chartId]
      msg  == [id |-> nextId.msg, conversationId |-> conv.id, role |-> "assistant",
               content |-> <<"report", nextId.msg>>]
  IN /\ f.kind = "report" /\ f.pc = "insight"
     /\ IF outcome = "raised"
        THEN OpFail(s, 500, "insight") /\ UNCHANGED <<conversations, messages, nextId>>
        ELSE IF ChartById(f.chartId) = <<>>
        THEN OpFail(s, 500, "conversation") /\ UNCHANGED <<conversations, messages, nextId>>
        ELSE /\ conversations' = conversations \cup {conv}
             /\ messages' = messages \cup {msg}
             /\ nextId' = [conv |-> nextId.conv + 1, msg |-> nextId.msg + 1]
             /\ op' = [op EXCEPT ![s] =
                    EndFrame(f, "done", 0, "none", <<[conversationId |-> conv.id]>>)]
     /\ UNCHANGED <<helperVars, insightVars, oracleVars, users, birthCharts, req>>

\* askAstrologyQuestion, lines 292-313: getClaudeInsight, then the answer is
\* stored in the conversation (which must still exist)
AskInsight(s, outcome) ==
  LET f   == op[s]
      msg == [id |-> nextId.msg, conversationId |-> f.convId, role |-> "assistant",
              content |-> <<"answer", nextId.msg>>]
  IN /\ f.kind = "ask" /\ f.pc = "insight"
     /\ IF outcome = "raised"
        THEN OpFail(s, 500, "insight") /\ UNCHANGED <<messages, nextId>>
        ELSE IF ~(\E c \in conversations : c.id = f.convId)
        THEN OpFail(s, 500, "message") /\ UNCHANGED <<messages, nextId>>
        ELSE /\ messages' = messages \cup {msg}
             /\ nextId' = [nextId EXCEPT !.msg = @ + 1]
             /\ op' = [op EXCEPT ![s] =
                    EndFrame(f, "done", 0, "none",
                             <<[conversationId |-> f.convId,
                                creditsRemaining |-> users[f.userId].credits]>>)]
     /\ UNCHANGED <<helperVars, insightVars, oracleVars, users, birthCharts, conversations, req>>

(* ------------- jobs/monthlyHoroscope.js: generateMonthlyHoroscopes ------- *)
\* the job, run once for a month: its findMany (premium users with their
\* charts that hold a snapshot), then getTransitDataForMonth(); the first
\* chart of the first such user is kept in the frame, as read
JobStart(s, month) ==
  LET premium == {u \in DOMAIN users : users[u].planId = "premium"}
      withChart == {u \in premium : \E c \in birthCharts : c.userId = u}
      u == CHOOSE v \in withChart : \A w \in withChart : v <= w
      primaryChart == CHOOSE c \in birthCharts : c.userId = u /\
                        \A d \in birthCharts : d.userId = u => c.id <= d.id
      transit == getTransitDataForMonth(month, sidMode, ephOpen, 0, "zeros")
  IN /\ SlotFree(s)
     /\ last.fn # "transit"
     /\ sidMode' = transit.sidMode
     /\ ephOpen' = transit.ephOpen
     /\ last' = [fn |-> "transit", calcArgs |-> <<>>, month |-> <<month>>,
                 failAt |-> 0, xxOnError |-> "zeros", oracleErr |-> FALSE,
                 queries |-> transit.queries, housesAsked |-> transit.housesAsked,
                 ok |-> transit.ok, error |-> transit.error, chart |-> transit.chart]
     /\ op' = [op EXCEPT ![s] =
          IF withChart = {}
          THEN [IdleOp EXCEPT !.kind = "job", !.pc = "done"]
          ELSE [IdleOp EXCEPT !.kind = "job", !.pc = "insight", !.userId = u,
                              !.chartId = primaryChart.id, !.chart = <<primaryChart>>]]
     /\ UNCHANGED <<nextId, helperVars, insightVars, storeVars>>

\* the body of the loop for that user (lines 93-146): the chart read by the
\* findMany is formatted, getClaudeInsight is called, the horoscope is stored
\* as a conversation with one message; an error is caught and logged
JobUser(s, outcome) ==
  LET f    == op[s]
      conv == [id |-> nextId.conv, userId |-> f.userId, birthChartId |-> f.chartId]
      msg  == [id |-> nextId.msg, conversationId |-> conv.id, role |-> "assistant",
               content |-> <<"horoscope", nextId.msg>>]
  IN /\ f.kind = "job" /\ f.pc = "insight"
     /\ IF \/ formatBirthChartDataAsXML(ChartDataForXML(f.chart[1])).threw
           \/ outcome = "raised"
           \/ ChartById(f.chartId) = <<>>
        THEN /\ op' = [op EXCEPT ![s] = EndFrame(f, "done", 0, "logged", <<>>)]
             /\ UNCHANGED <<conversations, messages, nextId>>
        ELSE /\ conversations' = conversations \cup {conv}
             /\ messages' = messages \cup {msg}
             /\ nextId' = [conv |-> nextId.conv + 1, msg |-> nextId.msg + 1]
             /\ op' = [op EXCEPT ![s] = EndFrame(f, "done", 0, "none", <<>>)]
     /\ UNCHANGED <<helperVars, insightVars, oracleVars, users, birthCharts, req>>

\* getClaudeInsight ends in one of two ways: it raises or it returns
\* the requests clients send: <<context.user (0: none), chart id>>, and the
\* arguments of askAstrologyQuestion. Slot "o1" carries any request, slot
\* "o2" the reports that overlap with it
NextStore ==
  \/ \E r \in ({<<0, 1>>, <<1, 0>>, <<1, 1>>, <<1, 2>>, <<2, 1>>}) : DetailsCall("o1", r[1], r[2])
  \/ \E r \in ({<<1, 1>>, <<1, 2>>, <<2, 1>>}) : DelStart("o1", r[1], r[2])
  \/ \E d \in BOOLEAN : DelMessages("o1", d)
  \/ \E d \in BOOLEAN : DelConversations("o1", d)
  \/ \E d \in BOOLEAN : DelChart("o1", d)
  \/ \E s \in OpSlots, r \in ({<<1, 1>>, <<1, 2>>}) : RptStart(s, r[1], r[2])
  \/ \E a \in ({ [birthChartId |-> 1, conversationId |-> 0, question |-> "q"], [birthChartId |-> 1,
          conversationId |-> 1, question |-> "q"], [birthChartId |-> 1, conversationId |-> 1,
          question |-> ""] }) : AskStart("o1", 1, a)
  \/ \E s \in OpSlots : FindChart(s)
  \/ AskConversation("o1")
  \/ \E s \in OpSlots : DecrementStep(s)
  \/ \E s \in OpSlots, o \in ({"raised", "ok"}) : RptInsight(s, o)
  \/ \E o \in ({"raised", "ok"}) : AskInsight("o1", o)
  \/ \E o \in ({"raised", "ok"}) : JobUser("o1", o)
  \/ JobStart("o1", <<2024, 7>>)

SpecStore == InitStore /\ [][NextStore]_vars

(* ==================== the astroLogic.js helpers, called ================ *)
\* a helper call that has been made with argument(s) arg and not yet evaluated
Asked(fn, arg) == [fn |-> fn, arg |-> arg, pc |-> "asked", threw |-> FALSE, out |-> <<>>]

PlacementCalls ==
  { Asked("getHousePlacement",
          [planetLongitude |-> l, houseCusps |-> c, ascendantLongitude |-> a,
           houseSystem |-> h]) :
      l \in (0..359 \cup {-1, -360, 360, 725}), c \in CuspArrays, a \in ({0, 29, 125, 335, -25,
              485}), h \in ({"P", "W", "w", "X"}) }

\* getHousePlacement(...) is evaluated
PlaceCall ==
  LET a == call.arg
      r == getHousePlacement(a.planetLongitude, a.houseCusps, a.ascendantLongitude,
                             a.houseSystem)
  IN /\ call.fn = "getHousePlacement" /\ call.pc = "asked"
     /\ call' = [call EXCEPT !.pc = "answered", !.threw = r.threw, !.out = <<r.value>>]
     /\ UNCHANGED <<opVars, insightVars, oracleVars, storeVars>>

\* formatLongitude(totalDegrees) is evaluated
FormatLonCall ==
  /\ call.fn = "formatLongitude" /\ call.pc = "asked"
  /\ call' = [call EXCEPT !.pc = "answered", !.out = <<formatLongitude(call.arg)>>]
  /\ UNCHANGED <<opVars, insightVars, oracleVars, storeVars>>

\* formatBirthChartDataAsXML(chartData) is evaluated
FormatChartCall ==
  LET r == formatBirthChartDataAsXML(call.arg)
  IN /\ call.fn = "formatBirthChartDataAsXML" /\ call.pc = "asked"
     /\ call' = [call EXCEPT !.pc = "answered", !.threw = r.threw,
                              !.out = <<[marker |-> r.marker, elements |-> r.elements]>>]
     /\ UNCHANGED <<opVars, insightVars, oracleVars, storeVars>>

\* formatTransitDataAsXML(transitData) is evaluated
FormatTransitCall ==
  LET r == formatTransitDataAsXML(call.arg)
  IN /\ call.fn = "formatTransitDataAsXML" /\ call.pc = "asked"
     /\ call' = [call EXCEPT !.pc = "answered", !.threw = r.threw,
                              !.out = <<[marker |-> r.marker, elements |-> r.elements]>>]
     /\ UNCHANGED <<opVars, insightVars, oracleVars, storeVars>>

\* the chart objects handed to formatBirthChartDataAsXML: stored charts
\* (parsed back from JSON, name and gender added) with parts taken away
\* the longitudes formatLongitude is called with
InitHelpers ==
  /\ anthropic = TRUE
  /\ ci = IdleFrame
  /\ InitOracleVars
  /\ InitStoreVars
  /\ InitOpVars
  /\ \/ call \in PlacementCalls
     \/ \E l \in ({ b + k * 360 * Scale : b \in ({ (((sg * 30 + dg) * 60 + mn) * 60 + sc) * (Scale \div 3600) + half : sg \in 0..11, dg \in {0, 15, 29}, mn \in {0, 30, 59}, sc \in {0, 59}, half \in {0, 1} }), k \in (0 - MaxTurns)..MaxTurns } \cup {Undef}) : call = Asked("formatLongitude", l)
     \/ \E a \in ({ [birthDate |-> <<1990, 7, 21>>, birthTime |-> <<6, 0>>, latitude |-> 41,
             longitude |-> -74, timezone |-> "UTC", houseSystemChar |-> h,
             ayanamsaName |-> n] : h \in {"P", "W"}, n \in {"LAHIRI", "TROPICAL"} }),
             gone \in SUBSET ({"planets", "houses", "houseSystem", "ascendant", "mc", "cusps",
             "Sun.longitude"}) :
          call = Asked("formatBirthChartDataAsXML", StripChart(StoredChart(a), gone))
     \/ call = Asked("formatBirthChartDataAsXML", <<>>)
     \/ \E m \in TransitMonths, gone \in SUBSET ({"date", "planets", "SE_SUN.longitude"}) :
          call = Asked("formatTransitDataAsXML", StripTransit(TransitSnapshot(m), gone))
     \/ call = Asked("formatTransitDataAsXML", <<>>)

NextHelpers ==
  \/ PlaceCall
  \/ FormatLonCall
  \/ FormatChartCall
  \/ FormatTransitCall

SpecHelpers == InitHelpers /\ [][NextHelpers]_vars

(* ======================= claims: insight engine ======================== *)
Last(s) == s[Len(s)]
Ended   == ci.pc \in {"returned", "raised"}

\* C1: the number of ledger records written by a call equals the number of
\* provider requests it attempted, record i carrying the outcome of request
\* i (isSuccess true for a successful attempt, false for a failed one).
C1_OneRecordPerAttempt ==
  /\ Len(ci.written) = Len(ci.requests)
  /\ \A i \in 1..Len(ci.written) :
       i <= Len(ci.requests) => ci.written[i].isSuccess = ci.requests[i].ok

\* C2 (state part): at most 2 provider requests; the loop is never left
\* without an outcome; an ended call has exactly one of result / error.
C2_AtMostTwoAndOutcome ==
  /\ Len(ci.requests) <= 2
  /\ ci.pc = "running" => ci.attempt <= 2
  /\ ci.pc = "returned" => (Len(ci.result) = 1 /\ ci.thrown = <<>>)
  /\ ci.pc = "raised"   => (Len(ci.thrown) = 1 /\ ci.result = <<>>)
  /\ ci.pc \in {"idle", "running"} => (ci.result = <<>> /\ ci.thrown = <<>>)

\* C2: every getClaudeInsight call makes at most 2 provider requests and,
\* the provider answering each request, always ends by returning a result
\* or raising an error, never both and never neither.
C2_TerminatesWithinTwo ==
  /\ [](C2_AtMostTwoAndOutcome)
  /\ (ci.pc = "running") ~> Ended

C2_Witness ==
  ci.pc = "raised" /\ Len(ci.requests) = 2

\* C3: the first request uses the premium model iff userPlan is 'premium'
\* (the basic model otherwise); a second request exists only after a failed
\* first one and always uses the basic model; after a failure on the basic
\* model the call waits a backoff interval (1000 ms * attempt) before it;
\* the premium model is requested at most once per call.
C3_ModelSchedule ==
  /\ Len(ci.requests) >= 1 =>
       /\ (ci.requests[1].model = PREMIUM_MODEL) <=> (ci.userPlan = "premium")
       /\ (ci.requests[1].model = BASIC_MODEL) <=> (ci.userPlan # "premium")
  /\ Len(ci.requests) >= 2 =>
       /\ ~ci.requests[1].ok
       /\ ci.requests[2].model = BASIC_MODEL
       /\ ci.requests[1].model = BASIC_MODEL => ci.waits[1] = 1000
  /\ Cardinality({i \in 1..Len(ci.requests) : ci.requests[i].model = PREMIUM_MODEL}) <= 1

C3_Witness ==
  /\ Len(ci.requests) = 2
  /\ ci.requests[1].model = PREMIUM_MODEL
  /\ ci.requests[2].model = BASIC_MODEL

\* C4: when the call returns, modelUsed is the model of the request that
\* succeeded and the model id of that attempt's ledger record; for plan
\* 'premium' with a failed first and a successful second attempt, modelUsed
\* is the basic model and exactly 2 ledger records exist, one failed and
\* one successful.
C4_ModelUsedAndTwoRecords ==
  ci.pc = "returned" =>
    /\ ci.result[1].modelUsed = Last(ci.requests).model
    /\ \E i \in 1..Len(ci.written) :
         /\ ci.written[i].attempt = Len(ci.requests)
         /\ ci.written[i].endpoint = ci.result[1].modelUsed
    /\ (ci.userPlan = "premium" /\ Len(ci.requests) = 2) =>
         /\ ci.result[1].modelUsed = BASIC_MODEL
         /\ Len(ci.written) = 2
         /\ ~ci.written[1].isSuccess
         /\ ci.written[2].isSuccess

\* C5: when both attempts fail the call raises an error wrapping the second
\* provider error, a failure record has by then been written for each
\* failed attempt, and no such error is raised while an attempt remains.
C5_RaiseAfterRecords ==
  (ci.pc = "raised" /\ ci.thrown[1].kind = "failedAfterAttempts") =>
    /\ Len(ci.requests) = 2
    /\ ci.thrown[1].cause = ci.requests[2].error
    /\ Len(ci.written) = 2
    /\ \A i \in 1..Len(ci.written) : ~ci.written[i].isSuccess

C7_CostOfModelUsed ==
  (ci.pc = "returned" /\ Last(ci.requests).promptTokens # NaN
                      /\ Last(ci.requests).completionTokens # NaN) =>
    LET r    == ci.result[1]
        q    == Last(ci.requests)
        inP  == IF q.model = BASIC_MODEL THEN 25 ELSE 300
        outP == IF q.model = BASIC_MODEL THEN 125 ELSE 1500
    IN /\ r.cost = q.promptTokens * inP + q.completionTokens * outP
       /\ \A i \in 1..Len(ci.written) :
            ci.written[i].isSuccess => ci.written[i].cost = r.cost

C7_Witness ==
  /\ ci.pc = "returned"
  /\ ci.userPlan = "premium"
  /\ Len(ci.requests) = 2
  /\ Last(ci.requests).promptTokens > 0
  /\ Last(ci.requests).completionTokens > 0
  /\ ci.result[1].cost = Last(ci.requests).promptTokens * 25
                         + Last(ci.requests).completionTokens * 125

(* ======================== claims: chart pipeline ======================= *)
\* C8: on every exit path of calculateBirthChartData, normal return and
\* every thrown error, the oracle's sidereal mode has been reset to the
\* default before control leaves the call.
C8_SidModeResetOnExit ==
  last.fn = "calc" => sidMode = SID_DEFAULT

\* C9: the snapshot a chart calculation produces depends only on its own
\* arguments (and the oracle's answers to its own queries): after whatever
\* history of earlier calls, different ayanamsas and failed calls included,
\* it is the snapshot the same call produces on an oracle nobody has used.
C9_SameArgsSameSnapshot ==
  /\ (last.fn = "calc" /\ last.ok) =>
       last.chart = calculateBirthChartData(last.calcArgs[1], SID_DEFAULT, FALSE, 0).chart
  /\ (last.fn = "transit" /\ last.ok) =>
       last.chart = getTransitDataForMonth(last.month[1], SID_DEFAULT, FALSE,
                                           last.failAt, last.xxOnError).chart

\* a tropical calculation that ran to its end on an oracle left in a
\* sidereal mode by an earlier failed call (a tropical call resets nothing)
C9_Witness ==
  /\ last.fn = "calc" /\ last.ok
  /\ last.calcArgs[1].ayanamsaName = "TROPICAL"
  /\ sidMode # SID_DEFAULT

\* a chart object holding the instant, all 12 bodies (the 11 queried ones
\* and Ketu) and the full house frame
ChartComplete(c) ==
  /\ c.jdut > 0
  /\ DOMAIN c.planets = {"Sun", "Moon", "Mercury", "Venus", "Mars", "Jupiter", "Saturn",
                         "Uranus", "Neptune", "Pluto", "Rahu", "Ketu"}
  /\ Len(c.houses.cusps) = 12
  /\ \A i \in 1..12 : c.houses.cusps[i] \in 0..359
  /\ c.houses.ascendant \in 0..359
  /\ c.houses.mc \in 0..359
  /\ c.houses.armc \in 0..359
  /\ c.houses.vertex \in 0..359

C10_NoPartialChart ==
  /\ \A r \in Reqs :
       /\ req[r].oracleFailed =>
            /\ req[r].pc = "failed"
            /\ req[r].chartRawData = <<>>
            /\ req[r].newChart = 0
            /\ req[r].result = <<>>
       /\ req[r].chartRawData # <<>> => ChartComplete(req[r].chartRawData[1])
       /\ req[r].result # <<>> => ChartComplete(req[r].result[1].planetaryPositions)
  /\ \A c \in birthCharts : ChartComplete(JSON_parse(c.planetaryPositionsJson))

C10_CreateOnlyAfterFullChart ==
  birthCharts' # birthCharts =>
    \E r \in Reqs :
      /\ req[r].pc = "store"
      /\ ~req[r].oracleFailed
      /\ ChartComplete(req[r].chartRawData[1])
      /\ \E row \in birthCharts' :
           /\ birthCharts' = birthCharts \cup {row}
           /\ JSON_parse(row.planetaryPositionsJson) = req[r].chartRawData[1]

\* C10: chart assembly is atomic: when the instant resolution, a body
\* query or the house calculation fails, calculateBirthChartData yields no
\* chart and createBirthChart creates no birthChart row; every chart that
\* is returned or persisted holds the instant, all 12 bodies and the full
\* house frame.
C10_AtomicChartAssembly ==
  /\ [](C10_NoPartialChart)
  /\ [][C10_CreateOnlyAfterFullChart]_vars

\* one request failed in the chart calculation and left no row, while the
\* other one stored its complete chart
C10_Witness ==
  \E r1, r2 \in Reqs :
    /\ req[r1].pc = "failed" /\ req[r1].stage = "calc" /\ req[r1].oracleFailed
    /\ req[r2].pc = "done" /\ req[r2].newChart # 0
    /\ Cardinality(birthCharts) = 1

\* C11: whenever the oracle reports an error for a body or an instant, the
\* position computation (calculateBirthChartData, getTransitDataForMonth)
\* fails with an error and produces no snapshot, hence none holding a zero,
\* default or stale position for that body.
C11_NoSnapshotOnOracleError ==
  last.oracleErr => (~last.ok /\ last.chart = <<>>)

(* ========================= claims: house placement ===================== *)
\* the forward arc from cusp i to the next cusp, and the position of a
\* longitude on the circle counted forward from cusp i
Arc(c, i)        == (c[(i % 12) + 1] - c[i]) % 360
Ahead(c, i, lon) == (lon - c[i]) % 360
RECURSIVE ArcSum(_, _)
ArcSum(c, i) == IF i = 0 THEN 0 ELSE Arc(c, i) + ArcSum(c, i - 1)

\* the cusps run once round the zodiac in house order
CuspsInOrder(c) ==
  /\ \A i \in 1..12 : Arc(c, i) > 0
  /\ ArcSum(c, 12) = 360

\* a placement asked for a quadrant system with 12 cusps and a longitude in [0, 360)
QuadrantCase ==
  /\ call.fn = "getHousePlacement" /\ call.pc = "answered"
  /\ call.arg.houseSystem \in {"P", "K", "R", "C"}
  /\ Len(call.arg.houseCusps) = 12
  /\ call.arg.planetLongitude \in 0..359

\* the answer is the one house whose interval [cusp i, cusp i+1) holds the longitude
TotalAndPartition ==
  LET c   == call.arg.houseCusps
      lon == call.arg.planetLongitude
  IN /\ ~call.threw
     /\ call.out[1] \in 1..12
     /\ {i \in 1..12 : Ahead(c, i, lon) < Arc(c, i)} = {call.out[1]}
     /\ \A i \in 1..12 : lon = c[i] % 360 => call.out[1] = i

\* C12 (as stated): for a quadrant house system and any 12 cusp longitudes,
\* every longitude in [0, 360) is assigned exactly one house number in 1..12
\* (never null, never a longitude inside two houses' intervals), and a
\* longitude equal to cusp i is assigned house i.
C12_TotalForAnyCusps ==
  QuadrantCase => TotalAndPartition

\* C12 (amended): the same, for 12 cusp longitudes that run once round the
\* zodiac in house order (each cusp strictly ahead of the one before it, the
\* twelve forward arcs adding up to 360 degrees).
C12_TotalForOrderedCusps ==
  (QuadrantCase /\ CuspsInOrder(call.arg.houseCusps)) => TotalAndPartition

\* a longitude past the 360/0 wrap, inside the house that starts before it
C12_Witness ==
  /\ QuadrantCase
  /\ call.arg.houseCusps = EqualCusps(345, 30)
  /\ call.arg.planetLongitude = 10
  /\ call.out = <<1>>

C14_UnknownSystemRejected ==
  /\ (call.fn = "getHousePlacement" /\ call.pc = "answered"
      /\ call.arg.houseSystem \notin HOUSE_SYSTEMS) =>
       (call.threw \/ call.out[1] \notin 1..12)
  /\ (last.fn = "calc" /\ last.calcArgs[1].houseSystemChar \notin HOUSE_SYSTEMS) =>
       (~last.ok /\ last.chart = <<>>)

(* ======================== claims: derived bodies ======================= *)
\* C15: in every chart calculateBirthChartData returns, Ketu's longitude is
\* (Rahu's longitude + 180) mod 360 and Ketu's latitude is the negation of
\* Rahu's; the oracle has been queried exactly once for each of the 11
\* bodies of PLANET_LIST and not at all for Ketu.
C15_KetuOppositeRahu ==
  (last.fn = "calc" /\ last.ok) =>
    LET p == last.chart[1].planets
    IN /\ p.Ketu.longitude = (p.Rahu.longitude + 180) % 360
       /\ p.Ketu.latitude = 0 - p.Rahu.latitude
       /\ Len(last.queries) = 11
       /\ \A id \in 0..10 : Cardinality({i \in 1..Len(last.queries) : last.queries[i] = id}) = 1

\* Rahu in the second half of the circle (the sum passes 360) and off the ecliptic
C15_Witness ==
  /\ last.fn = "calc" /\ last.ok
  /\ last.chart[1].planets.Rahu.longitude >= 180
  /\ last.chart[1].planets.Rahu.latitude # 0
  /\ last.chart[1].planets.Ketu.longitude < 180

\* C16: in every chart calculateBirthChartData returns, every body, the
\* derived Ketu included, has isRetrograde = (speedLon < 0) and a longitude
\* in [0, 360) (the oracle returning longitudes in [0, 360)).
C16_RetrogradeAndRange ==
  (last.fn = "calc" /\ last.ok) =>
    LET p == last.chart[1].planets
    IN /\ DOMAIN p = BodyNames
       /\ \A n \in DOMAIN p :
            /\ p[n].isRetrograde = (p[n].speedLon < 0)
            /\ p[n].longitude >= 0 /\ p[n].longitude < 360

\* a chart with a retrograde body, a direct one and a stationary one
C16_Witness ==
  /\ last.fn = "calc" /\ last.ok
  /\ \E n \in BodyNames : last.chart[1].planets[n].speedLon < 0
  /\ \E n \in BodyNames : last.chart[1].planets[n].speedLon > 0
  /\ \E n \in BodyNames : last.chart[1].planets[n].speedLon = 0
  /\ last.chart[1].planets.Ketu.isRetrograde

C17_FormattersNeverThrow ==
  /\ (call.fn = "formatBirthChartDataAsXML" /\ call.pc = "answered") =>
       /\ ~call.threw
       /\ (~Has(call.arg, "planets") \/ ~Has(call.arg, "houses")) =>
            call.out[1].marker = InsufficientChart
  /\ (call.fn = "formatTransitDataAsXML" /\ call.pc = "answered") =>
       /\ ~call.threw
       /\ ~Has(call.arg, "planets") => call.out[1].marker = InsufficientTransit

(* ========================= claims: time resolution ===================== *)
\* the arguments of the last chart calculation name no instant: the zone id
\* does not exist, or the date or the time is no calendar date / time of day
InvalidTimeInput ==
  /\ last.fn = "calc"
  /\ \/ last.calcArgs[1].timezone \notin KnownZones
     \/ last.calcArgs[1].birthDate[2] \notin 1..12
     \/ last.calcArgs[1].birthDate[3] \notin 1..31
     \/ last.calcArgs[1].birthTime[1] \notin 0..23
     \/ last.calcArgs[1].birthTime[2] \notin 0..59

C21_SnapshotReadOnly ==
  [][\A c \in birthCharts : \A d \in birthCharts' :
       d.id = c.id => d.planetaryPositionsJson = c.planetaryPositionsJson]_vars

\* the job has run, a report and a details query have been answered, a
\* conversation has been added, and chart 1 still holds what was stored
C21_Witness ==
  /\ last.fn = "transit"
  /\ op["o2"].kind = "report" /\ op["o2"].pc = "done"
  /\ op["o1"].kind = "details" /\ op["o1"].pc = "done"
  /\ \E c \in conversations : c.id > 1
  /\ \E c \in birthCharts : c.id = 1 /\ c.planetaryPositionsJson = StoredJson("Lahiri")

\* C22: a credit is taken only after a successful insight: a report or a
\* question whose getClaudeInsight call raised has taken no credit from its
\* user.
C22_NoChargeWhenInsightRaises ==
  \A s \in OpSlots :
    (op[s].kind \in {"report", "ask"} /\ op[s].pc = "failed" /\ op[s].stage = "insight")
      => op[s].decremented = 0

(* ========================= claims: createBirthChart ==================== *)
\* the request has gone past birthInfoSchema into the try block
PastValidation(r) ==
  \/ req[r].pc \in {"geocode", "timezone", "store", "decrement", "insight", "awaitInsight",
                    "done"}
  \/ req[r].pc = "failed" /\ req[r].stage \notin {"auth", "limits", "validation"}

\* C23: createBirthChart reaches geocoding, the timezone lookup and the
\* chart calculation only with a date of the shape YYYY-MM-DD, a time that
\* is a 24-hour HH:MM (hour 00..23, minute 00..59) and a non-empty location.
C23_OnlyValidInputPastValidation ==
  \A r \in Reqs :
    PastValidation(r) =>
      /\ MatchesDateShape(req[r].args[1].birthDate)
      /\ req[r].args[1].birthTime[1] \in 0..23
      /\ req[r].args[1].birthTime[2] \in 0..59
      /\ req[r].args[1].birthLocation # ""

(* ==================== claims: the retry loop as a machine ============== *)
\* the four-state machine: a pure reducer over (attempt outcome, attempts
\* remaining, is-primary-model); Succeeded and Failed are terminal
MachineStates == {"TryPrimary", "TryFallback", "Failed", "Succeeded"}

Reducer(state, ok, attemptsRemaining, isPrimaryModel) ==
  IF state \in {"Failed", "Succeeded"} THEN state
  ELSE IF ok THEN "Succeeded"
  ELSE IF attemptsRemaining = 0 THEN "Failed"
  ELSE "TryFallback"

\* what the loop's variables say about where the machine is
MachineState(c) ==
  IF c.pc = "returned" THEN "Succeeded"
  ELSE IF c.pc = "raised" THEN "Failed"
  ELSE IF c.attempt = 1 THEN "TryPrimary"
  ELSE "TryFallback"

AttemptsRemaining(c) == maxAttempts - c.attempt
IsPrimaryModel(c)    == c.modelToUse = PREMIUM_MODEL

\* this step is one iteration of the loop (a provider request was made)
Iteration == Len(ci'.requests) = Len(ci.requests) + 1

\* every iteration of the loop is the machine's transition for its outcome
LoopStepIsMachineStep ==
  Iteration =>
    /\ MachineState(ci) \in {"TryPrimary", "TryFallback"}
    /\ MachineState(ci') = Reducer(MachineState(ci), Last(ci'.requests).ok,
                                   AttemptsRemaining(ci), IsPrimaryModel(ci))

\* every transition the machine has from the current state is one the loop
\* can take: both outcomes of the attempt are possible while it is trying
MachineStepIsLoopStep ==
  ci.pc = "running" =>
    /\ MachineState(ci) \in {"TryPrimary", "TryFallback"}
    /\ \A ok \in BOOLEAN :
         ENABLED (NextInsight /\ Iteration /\ Last(ci'.requests).ok = ok
                  /\ MachineState(ci') = Reducer(MachineState(ci), ok,
                                                 AttemptsRemaining(ci), IsPrimaryModel(ci)))

\* C24: the retry loop of getClaudeInsight is the four-state machine
\* {TryPrimary, TryFallback, Failed, Succeeded}: each iteration is the
\* machine's transition for (outcome, attempts remaining, is-primary-model),
\* no iteration leaves Succeeded or Failed, and every transition of the
\* machine is one the loop can take.
C24_LoopIsMachine ==
  /\ [][LoopStepIsMachineStep]_vars
  /\ [](MachineStepIsLoopStep)

\* a run TryPrimary -> TryFallback -> Failed of a premium call, whose first
\* attempt was on the primary model
C24_Witness ==
  /\ MachineState(ci) = "Failed"
  /\ Len(ci.requests) = 2
  /\ ci.requests[1].modelToUse = PREMIUM_MODEL
  /\ ~ci.requests[1].ok /\ ~ci.requests[2].ok

(* ====================== claims: conversation history =================== *)
\* the last n elements of a sequence
LastN(seq, n) == IF Len(seq) <= n THEN seq ELSE SubSeq(seq, Len(seq) - n + 1, Len(seq))

\* C25: when askAstrologyQuestion continues a conversation, the messages it
\* hands to the model are the 10 most recent stored messages of that
\* conversation, oldest first, followed by the new user turn.
C25_LastTenThenNewTurn ==
  [][\A s \in OpSlots :
       (/\ op[s].kind = "ask" /\ op[s].pc = "conversation" /\ op[s].convId # 0
        /\ op'[s].pc = "decrement")
       => LET stored == RoleAndContent(
                          Ascending({m \in messages : m.conversationId = op[s].convId}))
              recent == LastN(stored, 10)
              sent   == op'[s].sent
          IN /\ Len(sent) = Len(recent) + 1
             /\ SubSeq(sent, 1, Len(recent)) = recent
             /\ sent[Len(sent)].role = "user"]_vars

(* =========================== claims: access ============================ *)
\* C26: getBirthChartDetails returns a chart only to its owner or to an
\* admin; any other requester is answered 'not found or access denied'.
C26_DetailsOnlyForOwnerOrAdmin ==
  \A s \in OpSlots :
    (op[s].kind = "details" /\ op[s].pc = "done")
      => \/ op[s].result[1].userId = op[s].userId
         \/ users[op[s].userId].isAdmin

(* ====================== claims: credits and limits ===================== *)
\* C27: the credits of a user on the free trial or the basic plan never
\* become negative, whatever reports, questions and deletions are made,
\* one after the other or overlapping.
C27_CreditsNeverNegative ==
  \A u \in DOMAIN users :
    (IsFreeTrial(users[u].planId) \/ users[u].planId = "basic") => users[u].credits >= 0

\* C28: in every reachable state a free-trial user owns at most 1 birth
\* chart and a basic user at most 3, also when createBirthChart calls of the
\* same user overlap.
C28_ChartLimitsHold ==
  \A u \in DOMAIN users :
    /\ IsFreeTrial(users[u].planId) => ChartCount(u) <= FREE_TRIAL_CHART_LIMIT
    /\ users[u].planId = "basic" => ChartCount(u) <= BASIC_PLAN_CHART_LIMIT

\* C29: createBirthChart is all-or-nothing: a call that ended with an error
\* has left no birthChart row, no conversation of such a row and no credit
\* decrement behind.
C29_CreateAllOrNothing ==
  \A r \in Reqs :
    req[r].pc = "failed" =>
      /\ ~(\E c \in birthCharts : c.id = req[r].newChart)
      /\ ~(\E c \in conversations : c.birthChartId = req[r].newChart)

(* -------------------- claims: deleteBirthChart -------------------------- *)
\* a deleteBirthChart call that ended with an error has removed nothing
FailedDeleteRemovedNothing ==
  \A s \in OpSlots :
    (op[s].kind = "delete" /\ op[s].pc = "failed") => op[s].removed = 0

\* a call that is at one of its delete steps was made by the owner of the
\* chart or by an admin
OnlyOwnerOrAdminDeletes ==
  \A s \in OpSlots :
    (op[s].kind = "delete" /\ op[s].pc \in {"delMessages", "delConversations", "delChart"}) =>
      \E c \in birthCharts :
        /\ c.id = op[s].chartId
        /\ c.userId = op[s].userId \/ users[op[s].userId].isAdmin

\* after a call that succeeded no conversation and no message refers to the chart
NoOrphansAfterDelete ==
  \A s \in OpSlots :
    (op[s].kind = "delete" /\ op[s].pc = "done") =>
      ConvsOf(op[s].chartId) = {} /\ MsgsOf(op[s].chartId) = {}

\* C30: deleteBirthChart is all-or-nothing and leaves no orphans: after a
\* call that succeeded no conversation or message refers to the chart, a call
\* that failed at one of its delete steps has removed no row, and only the
\* owner of the chart or an admin removes rows.
C30_DeleteAllOrNothing ==
  /\ NoOrphansAfterDelete
  /\ FailedDeleteRemovedNothing
  /\ OnlyOwnerOrAdminDeletes

====
